---- MODULE Spec2Model ----
(***************************************************************************)
(* OnGoPool: the two-phase payment settlement core.                        *)
(*                                                                         *)
(* A passenger requests a ride (RideDetailsPage.handleRequestRide), pays   *)
(* through the PaymentModal on the wallet rail (PayPalButton ->            *)
(* PayPalService) or on the card rail (PaymentModal.handlePayment ->       *)
(* PaymentHoldService -> api/stripe), and the hold is later captured or    *)
(* voided.  Earnings are written by EarningsService.                       *)
(*                                                                         *)
(* The database tables (ride_bookings, payments, earnings) are sequences:  *)
(* a row's id is its index.  The providers' sides (PayPal orders, Stripe   *)
(* payment intents) are sequences too.  Every await of a multi-step        *)
(* service call is a separate step of the process that runs the call, so   *)
(* that concurrent calls interleave exactly where the code yields.         *)
(***************************************************************************)
EXTENDS Integers, Sequences, FiniteSets, TLC

\* ---------------------------------------------------------------- bounds
MaxBookings == 2
MaxOrders == 2
MaxIntents == 1
MaxProcs == 2
MaxCalls == 3
MaxFaults == 2
MaxTime == 12
TickHours == 12
CallCap == 2
MaxGrossCents == 30
MaxPercent == 100

\* ------------------------------------------------------ program constants
\* "no response within 12 hours": the fixed response window, in hours.
ResponseWindow == 12

\* ride_bookings.response_deadline / payment_intent_id when never written
\* (null column, or an update whose value is undefined).
NoDeadline == -1
NoId == 0

ProcIds == 1..MaxProcs

\* payments.status values the code writes.
NonTerminalStatus == {"requires_action", "requires_capture"}
TerminalStatus == {"succeeded", "cancelled", "failed"}

VARIABLES
  now,               \* wall clock, in hours
  ride_bookings,     \* table ride_bookings
  payments,          \* table payments
  payout_requests,   \* table payout_requests
  earnings,          \* table earnings
  orders,            \* PayPal's side: orders and their authorizations
  intents,           \* Stripe's side: payment intents
  currentBookingId,  \* RideDetailsPage state (NoId = null); modal shown iff set
  popupOrder,        \* PayPal approval popup: the order shown (NoId = closed)
  lastOutcome,       \* outcome of the last payment-modal handler that ran
  procs,             \* in-flight service calls
  calls,             \* number of service calls invoked so far
  faults,            \* number of environment faults injected so far
  rideAutomationService,  \* the RideAutomationService singleton and its timers
  rides              \* table rides (the driver's rows)

vars == <<now, ride_bookings, payments, payout_requests, earnings, orders,
          intents, currentBookingId, popupOrder, lastOutcome, procs, calls, faults,
          rideAutomationService, rides>>

\* --------------------------------------------------------------- helpers
Min(a, b) == IF a < b THEN a ELSE b

Bump(n) == Min(n + 1, CallCap)

\* An environment fault (network error, database error) may be injected
\* while the budget lasts.
CanFault == faults < MaxFaults

\* A service call in flight: the method (op), where it stands (pc), its
\* arguments (id: authorization or intent, bk: booking, reason), who made it
\* (origin), and what it has done so far: pre is the stored state it was
\* invoked on, issued whether it sent the provider a capture or a void,
\* changed whether it wrote to the provider or to the database.
IdleProc ==
  [op |-> "idle", pc |-> "idle", id |-> NoId, bk |-> NoId, result |-> "none",
   pre |-> "none", issued |-> FALSE, changed |-> FALSE, reason |-> FALSE,
   origin |-> "none", todo |-> <<>>]

NewCall(op, pc, id, bk, pre, reason, origin) ==
  [IdleProc EXCEPT !.op = op, !.pc = pc, !.id = id, !.bk = bk, !.pre = pre,
                   !.reason = reason, !.origin = origin]

Finish(call, result) == [call EXCEPT !.pc = "done", !.result = result]

Free(p) == procs[p].pc \in {"idle", "done"}

\* The process a new call is given: the first free one.
NextFree(p) == Free(p) /\ \A q \in ProcIds : (q < p) => ~Free(q)

\* new RideAutomationService(): intervalId = null, isRunning = false; no
\* interval is registered with the event loop and no run is in flight.
NewService ==
  [isRunning |-> FALSE, intervalId |-> NoId, timers |-> {}, runs |-> <<>>,
   issued |-> 0]

Init ==
  /\ now = 0
  /\ ride_bookings = <<>>
  /\ payments = <<>>
  /\ earnings = <<>>
  /\ orders = <<>>
  /\ intents = <<>>
  /\ currentBookingId = NoId
  /\ popupOrder = NoId
  /\ lastOutcome = "none"
  /\ procs = [p \in ProcIds |-> IdleProc]
  /\ calls = 0
  /\ faults = 0
  /\ payout_requests = <<>>
  /\ rideAutomationService = NewService
  /\ rides = <<>>

\* ============================================================ UI flows
\* RideDetailsPage.handleRequestRide: the booking is inserted first, with
\* payment_status 'pending'; then the segment seats; then the modal opens.
NewBooking ==
  [status |-> "pending", payment_status |-> "pending",
   payment_intent_id |-> NoId, response_deadline |-> NoDeadline]

handleRequestRide(outcome) ==
  /\ currentBookingId = NoId
  /\ Len(ride_bookings) < MaxBookings
  /\ outcome \in {"ok"} \cup (IF CanFault THEN {"booking_failed", "seats_failed"} ELSE {})
  /\ ride_bookings' = IF outcome = "booking_failed" THEN ride_bookings
                      ELSE Append(ride_bookings, NewBooking)
  /\ currentBookingId' = IF outcome = "ok" THEN Len(ride_bookings) + 1 ELSE NoId
  /\ faults' = IF outcome = "ok" THEN faults ELSE faults + 1
  /\ UNCHANGED <<rides, rideAutomationService, payout_requests, now, payments, earnings, orders, intents, popupOrder,
                 lastOutcome, procs, calls>>

\* RideDetailsPage.handlePaymentSuccess: the booking update after the modal
\* reports success.  paymentData.isHold and paymentData.expiresAt are read
\* as the caller supplied them (absent fields are undefined: falsy, null).
handlePaymentSuccess(bookings, bid, paymentData) ==
  [bookings EXCEPT ![bid] =
     [@ EXCEPT !.payment_status = IF paymentData.isHold THEN "authorized" ELSE "paid",
               !.payment_intent_id = paymentData.paymentIntentId,
               !.response_deadline = paymentData.expiresAt]]

\* PayPalButton.onApprove's onSuccess payload for intent 'authorize': it
\* carries neither isHold nor expiresAt.
PayPalAuthorizePayload(authorizationId) ==
  [paymentIntentId |-> authorizationId, isHold |-> FALSE, expiresAt |-> NoDeadline]

\* PaymentModal.handlePayment's payload for a card hold.
CardHoldPayload(authorizationId, expiresAt) ==
  [paymentIntentId |-> authorizationId, isHold |-> TRUE, expiresAt |-> expiresAt]


\* ============================================================ wallet rail
\* --- PayPal's side, as the service methods reach it ---------------------
NewOrder == [state |-> "CREATED", captureCalls |-> 0, voidCalls |-> 0]

\* The authorization PayPal creates for order k carries its own id.
AuthorizationOf(orderId) == orderId

\* PayPalService.createOrder: POST /v2/checkout/orders.
PayPalService_createOrder(ords) == Append(ords, NewOrder)

\* PayPalService.authorizeOrder: POST /v2/checkout/orders/{id}/authorize.
\* PayPal authorizes an order the payer approved, once.
authorizeAccepted(ords, orderId) == ords[orderId].state = "APPROVED"

authorizeOrder(ords, orderId) ==
  IF authorizeAccepted(ords, orderId)
  THEN [ords EXCEPT ![orderId].state = "AUTHORIZED"]
  ELSE ords

\* PayPalService.captureAuthorization: POST .../authorizations/{id}/capture.
\* The call is issued whatever the authorization's state; PayPal performs it
\* only on an authorization that is neither captured nor voided.
captureAccepted(ords, a) == ords[a].state = "AUTHORIZED"

captureAuthorization(ords, a, delivered) ==
  [ords EXCEPT ![a] =
     [@ EXCEPT !.captureCalls = Bump(@),
               !.state = IF delivered /\ captureAccepted(ords, a)
                         THEN "CAPTURED" ELSE @]]

\* PayPalService.voidAuthorization: POST .../authorizations/{id}/void.
voidAccepted(ords, a) == ords[a].state = "AUTHORIZED"

voidAuthorization(ords, a, delivered) ==
  [ords EXCEPT ![a] =
     [@ EXCEPT !.voidCalls = Bump(@),
               !.state = IF delivered /\ voidAccepted(ords, a)
                         THEN "VOIDED" ELSE @]]

\* --- PayPalService.createPaymentHold ------------------------------------
\* The row inserted after the order was created: no look-up of the
\* booking's existing rows precedes the insert.
createPaymentHold(pays, bookingId, orderId) ==
  Append(pays,
    [booking_id |-> bookingId, payment_method |-> "paypal",
     transaction_id |-> orderId, payment_intent_id |-> NoId,
     status |-> "requires_action",
     payment_data |-> [paypal_order_id |-> orderId,
                       paypal_authorization_id |-> NoId]])

\* A variant of createPaymentHoldBooking that marks the booking authorized
\* as soon as the hold is opened.
createPaymentHoldBooking_authorized(bookings, bookingId) ==
  [bookings EXCEPT ![bookingId].payment_status = "authorized"]

\* createPaymentHold writes the payments table only; the booking is not
\* touched when the hold is opened.
createPaymentHoldBooking(bookings, bookingId) == bookings

\* PayPalButton.createOrder (intent 'authorize', booking and user present).
PayPalButton_createOrder(outcome) ==
  /\ currentBookingId # NoId
  /\ popupOrder = NoId
  /\ outcome \in {"ok"} \cup (IF CanFault THEN {"order_failed", "insert_failed"} ELSE {})
  /\ (outcome # "order_failed") => Len(orders) < MaxOrders
  /\ orders' = IF outcome = "order_failed" THEN orders
               ELSE PayPalService_createOrder(orders)
  /\ payments' = IF outcome = "ok"
                 THEN createPaymentHold(payments, currentBookingId, Len(orders) + 1)
                 ELSE payments
  /\ ride_bookings' = IF outcome = "ok"
                      THEN createPaymentHoldBooking(ride_bookings, currentBookingId)
                      ELSE ride_bookings
  /\ popupOrder' = IF outcome = "ok" THEN Len(orders) + 1 ELSE NoId
  /\ lastOutcome' = IF outcome = "ok" THEN "order_created" ELSE outcome
  /\ faults' = IF outcome = "ok" THEN faults ELSE faults + 1
  /\ UNCHANGED <<rides, rideAutomationService, payout_requests, now, earnings, intents, currentBookingId,
                 procs, calls>>

\* The payer approves the order in PayPal's popup.
PayerApproves ==
  /\ popupOrder # NoId
  /\ orders[popupOrder].state = "CREATED"
  /\ orders' = [orders EXCEPT ![popupOrder].state = "APPROVED"]
  /\ UNCHANGED <<rides, rideAutomationService, payout_requests, now, ride_bookings, payments, earnings, intents,
                 currentBookingId, popupOrder, lastOutcome, procs, calls, faults>>

\* --- PayPalService.processAuthorization ---------------------------------
\* The update of the rows matching transaction_id and booking_id.
processAuthorizationRows(pays, orderId, bookingId) ==
  [i \in DOMAIN pays |->
     IF pays[i].transaction_id = orderId /\ pays[i].booking_id = bookingId
        /\ pays[i].payment_method = "paypal"
     THEN [pays[i] EXCEPT
             !.payment_intent_id = AuthorizationOf(orderId),
             !.status = "requires_capture",
             !.payment_data = [paypal_order_id |-> orderId,
                               paypal_authorization_id |-> AuthorizationOf(orderId)]]
     ELSE pays[i]]

\* A variant of onApproveBookings that reports success to the page whatever
\* processAuthorization did.
onApproveBookings_always(bookings, bid, orderId, outcome) ==
  handlePaymentSuccess(bookings, bid,
    PayPalAuthorizePayload(AuthorizationOf(orderId)))

\* PayPalButton.onApprove -> PaymentModal's onSuccess -> handlePaymentSuccess:
\* the booking is written only when processAuthorization returned.
onApproveBookings(bookings, bid, orderId, outcome) ==
  IF outcome = "ok"
  THEN handlePaymentSuccess(bookings, bid,
         PayPalAuthorizePayload(AuthorizationOf(orderId)))
  ELSE bookings

PayPalButton_onApprove(outcome) ==
  /\ currentBookingId # NoId
  /\ popupOrder # NoId
  /\ orders[popupOrder].state = "APPROVED"
  /\ outcome \in {"ok"} \cup
       (IF CanFault
        THEN {"authorize_failed", "update_failed", "booking_update_failed"}
        ELSE {})
  /\ orders' = IF outcome = "authorize_failed" THEN orders
               ELSE authorizeOrder(orders, popupOrder)
  /\ payments' = IF outcome \in {"authorize_failed", "update_failed"} THEN payments
                 ELSE processAuthorizationRows(payments, popupOrder, currentBookingId)
  /\ ride_bookings' = onApproveBookings(ride_bookings, currentBookingId,
                                        popupOrder, outcome)
  /\ currentBookingId' = IF outcome = "ok" THEN NoId ELSE currentBookingId
  /\ popupOrder' = NoId
  /\ lastOutcome' = IF outcome = "ok" THEN "paypal_success" ELSE outcome
  /\ faults' = IF outcome = "ok" THEN faults ELSE faults + 1
  /\ UNCHANGED <<rides, rideAutomationService, payout_requests, now, earnings, intents, procs, calls>>

\* PayPalButton.onCancelHandler: the payer closes the popup.
PayPalButton_onCancel ==
  /\ popupOrder # NoId
  /\ popupOrder' = NoId
  /\ lastOutcome' = "payer_cancelled"
  /\ UNCHANGED <<rides, rideAutomationService, payout_requests, now, ride_bookings, payments, earnings, orders, intents,
                 currentBookingId, procs, calls, faults>>

\* RideDetailsPage's onCancel of the PaymentModal.
PaymentModal_onCancel ==
  /\ currentBookingId # NoId
  /\ currentBookingId' = NoId
  /\ popupOrder' = NoId
  /\ lastOutcome' = "modal_cancelled"
  /\ UNCHANGED <<rides, rideAutomationService, payout_requests, now, ride_bookings, payments, earnings, orders, intents,
                 procs, calls, faults>>

\* ============================================================== card rail
NewIntent ==
  [status |-> "requires_capture", cancellation_metadata |-> FALSE,
   captureCalls |-> 0, cancelCalls |-> 0]

\* PaymentHoldService.createPaymentHold (lib/paymentHoldService): rejects a
\* booking that already has a non-terminal payment row.
DuplicateHold(pays, bookingId) ==
  \E i \in DOMAIN pays :
    pays[i].booking_id = bookingId /\ pays[i].status \in NonTerminalStatus

\* ... otherwise opens an authorized card hold: the intent, and its row.
PaymentHoldService_row(pays, bookingId, intentId) ==
  Append(pays,
    [booking_id |-> bookingId, payment_method |-> "card",
     transaction_id |-> NoId, payment_intent_id |-> intentId,
     status |-> "requires_capture",
     payment_data |-> [paypal_order_id |-> NoId,
                       paypal_authorization_id |-> NoId]])

\* ... and reports the end of the response window as expiresAt.
PaymentHoldService_expiresAt(t) == t + ResponseWindow

\* PaymentModal.handlePayment with usePaymentHold, a booking and a user.
handlePaymentBookings(bookings, bid, intentId, expiresAt, outcome) ==
  IF outcome = "ok"
  THEN handlePaymentSuccess(bookings, bid, CardHoldPayload(intentId, expiresAt))
  ELSE bookings

PaymentModal_handlePayment(outcome) ==
  /\ currentBookingId # NoId
  /\ popupOrder = NoId
  /\ outcome \in
       {"validation_failed"} \cup
       (IF DuplicateHold(payments, currentBookingId) THEN {"duplicate_hold"}
        ELSE {"ok"} \cup
             (IF CanFault THEN {"hold_failed", "booking_update_failed"} ELSE {}))
  /\ (outcome \in {"ok", "booking_update_failed"}) => Len(intents) < MaxIntents
  /\ LET created == outcome \in {"ok", "booking_update_failed"}
         intentId == Len(intents) + 1
     IN /\ intents' = IF created THEN Append(intents, NewIntent) ELSE intents
        /\ payments' = IF created
                       THEN PaymentHoldService_row(payments, currentBookingId, intentId)
                       ELSE payments
        /\ ride_bookings' = handlePaymentBookings(ride_bookings, currentBookingId,
                              intentId, PaymentHoldService_expiresAt(now), outcome)
  /\ currentBookingId' = IF outcome = "ok" THEN NoId ELSE currentBookingId
  /\ lastOutcome' = IF outcome = "ok" THEN "card_success" ELSE outcome
  /\ faults' = IF outcome \in {"hold_failed", "booking_update_failed"}
               THEN faults + 1 ELSE faults
  /\ UNCHANGED <<rides, rideAutomationService, payout_requests, now, earnings, orders, popupOrder, procs, calls>>


\* ================================================== settlement: wallet rail
\* Settlement Engine, Resolve(bookingId, Accept): once the capture is
\* recorded the booking's payment_status becomes captured ('paid').
ResolveAcceptBooking(bookings, bk, ok) ==
  IF ok /\ bk # NoId
  THEN [bookings EXCEPT ![bk].payment_status = "paid"]
  ELSE bookings

\* A caller (the booking subsystem on a driver's decision, a retry, a
\* duplicate delivery) invokes captureHeldPayment(authorizationId, bookingId)
\* with the ids of a payment row that holds an authorization.
PayPalRows == {r \in DOMAIN payments :
                 payments[r].payment_method = "paypal"
                 /\ payments[r].payment_intent_id # NoId}

Invoke_captureHeldPayment(p, r) ==
  /\ NextFree(p)
  /\ calls < MaxCalls
  /\ r \in PayPalRows
  /\ procs' = [procs EXCEPT ![p] =
       NewCall("captureHeldPayment", "fetch", payments[r].payment_intent_id,
               payments[r].booking_id, payments[r].status, FALSE, "caller")]
  /\ calls' = calls + 1
  /\ UNCHANGED <<rides, rideAutomationService, payout_requests, now, ride_bookings, payments, earnings, orders, intents,
                 currentBookingId, popupOrder, lastOutcome, faults>>

\* The rows .eq('payment_intent_id', authorizationId).eq('booking_id', bookingId).
HeldRows(pays, a, bk) ==
  {i \in DOMAIN pays : pays[i].payment_method = "paypal"
                       /\ pays[i].payment_intent_id = a /\ pays[i].booking_id = bk}

\* captureHeldPayment, first await: the row is read (.single()); its status
\* is not among the columns selected, and is not looked at.
captureHeldPayment_fetch(p) ==
  /\ procs[p].op = "captureHeldPayment" /\ procs[p].pc = "fetch"
  /\ procs' = [procs EXCEPT ![p] =
       IF Cardinality(HeldRows(payments, procs[p].id, procs[p].bk)) = 1
       THEN [@ EXCEPT !.pc = "capture"]
       ELSE Finish(@, "error")]
  /\ UNCHANGED <<rides, rideAutomationService, payout_requests, now, ride_bookings, payments, earnings, orders, intents,
                 currentBookingId, popupOrder, lastOutcome, calls, faults>>

\* A variant of onCaptureFailure that releases the hold's row when the
\* capture fails.
onCaptureFailure_cancels(pays, a, bk) ==
  [i \in DOMAIN pays |->
     IF i \in HeldRows(pays, a, bk)
     THEN [pays[i] EXCEPT !.status = "cancelled"]
     ELSE pays[i]]

\* captureHeldPayment's catch block: the error is logged and rethrown.
onCaptureFailure(pays, a, bk) == pays

\* captureHeldPayment, second await: captureAuthorization.  The capture is
\* completed, rejected by PayPal (response not ok), lost (exception), or
\* answered with a status other than COMPLETED.
captureHeldPayment_capture(p, outcome) ==
  /\ procs[p].op = "captureHeldPayment" /\ procs[p].pc = "capture"
  /\ LET a == procs[p].id
         accepted == captureAccepted(orders, a)
     IN /\ outcome \in
             (IF accepted THEN {"completed"} ELSE {"rejected"}) \cup
             (IF CanFault THEN {"network", "not_completed"} ELSE {})
        /\ orders' = captureAuthorization(orders, a, outcome = "completed")
        /\ payments' = IF outcome = "completed" THEN payments
                       ELSE onCaptureFailure(payments, a, procs[p].bk)
        /\ procs' = [procs EXCEPT ![p] =
             IF outcome = "completed"
             THEN [@ EXCEPT !.pc = "update", !.issued = TRUE, !.changed = TRUE]
             ELSE Finish([@ EXCEPT !.issued = TRUE], "error")]
        /\ faults' = IF outcome \in {"network", "not_completed"}
                     THEN faults + 1 ELSE faults
  /\ UNCHANGED <<rides, rideAutomationService, payout_requests, now, ride_bookings, earnings, intents, currentBookingId,
                 popupOrder, lastOutcome, calls>>

\* The update after a COMPLETED capture: status 'succeeded'; payment_data is
\* the data read at the first await plus the capture's.
captureHeldPaymentRows(pays, a, bk) ==
  [i \in DOMAIN pays |->
     IF i \in HeldRows(pays, a, bk)
     THEN [pays[i] EXCEPT !.status = "succeeded"]
     ELSE pays[i]]

captureHeldPayment_update(p, outcome) ==
  /\ procs[p].op = "captureHeldPayment" /\ procs[p].pc = "update"
  /\ outcome \in {"ok"} \cup (IF CanFault THEN {"update_failed"} ELSE {})
  /\ payments' = IF outcome = "ok"
                 THEN captureHeldPaymentRows(payments, procs[p].id, procs[p].bk)
                 ELSE payments
  /\ ride_bookings' = ResolveAcceptBooking(ride_bookings, procs[p].bk,
                                           outcome = "ok")
  /\ procs' = [procs EXCEPT ![p] =
       Finish(@, IF outcome = "ok" THEN "captured" ELSE "error")]
  /\ faults' = IF outcome = "ok" THEN faults ELSE faults + 1
  /\ UNCHANGED <<rides, rideAutomationService, payout_requests, now, earnings, orders, intents, currentBookingId,
                 popupOrder, lastOutcome, calls>>

\* cancelPaymentHold(authorizationId, bookingId), invoked by a caller.
Invoke_cancelPaymentHold(p, r) ==
  /\ NextFree(p)
  /\ calls < MaxCalls
  /\ r \in PayPalRows
  /\ procs' = [procs EXCEPT ![p] =
       NewCall("cancelPaymentHold", "void", payments[r].payment_intent_id,
               payments[r].booking_id, payments[r].status, FALSE, "caller")]
  /\ calls' = calls + 1
  /\ UNCHANGED <<rides, rideAutomationService, payout_requests, now, ride_bookings, payments, earnings, orders, intents,
                 currentBookingId, popupOrder, lastOutcome, faults>>

\* cancelPaymentHold, first await: voidAuthorization.
cancelPaymentHold_void(p, outcome) ==
  /\ procs[p].op = "cancelPaymentHold" /\ procs[p].pc = "void"
  /\ LET a == procs[p].id
         accepted == voidAccepted(orders, a)
     IN /\ outcome \in
             (IF accepted THEN {"voided"} ELSE {"rejected"}) \cup
             (IF CanFault THEN {"network"} ELSE {})
        /\ orders' = voidAuthorization(orders, a, outcome = "voided")
        /\ procs' = [procs EXCEPT ![p] =
             IF outcome = "voided"
             THEN [@ EXCEPT !.pc = "update", !.issued = TRUE, !.changed = TRUE]
             ELSE Finish([@ EXCEPT !.issued = TRUE], "error")]
        /\ faults' = IF outcome = "network" THEN faults + 1 ELSE faults
  /\ UNCHANGED <<rides, rideAutomationService, payout_requests, now, ride_bookings, payments, earnings, intents,
                 currentBookingId, popupOrder, lastOutcome, calls>>

\* The update after the void: status 'cancelled'; payment_data is replaced
\* by { voided_at }.
cancelPaymentHoldRows(pays, a, bk) ==
  [i \in DOMAIN pays |->
     IF i \in HeldRows(pays, a, bk)
     THEN [pays[i] EXCEPT
             !.status = "cancelled",
             !.payment_data = [paypal_order_id |-> NoId,
                               paypal_authorization_id |-> NoId]]
     ELSE pays[i]]

\* Settlement Engine, Resolve(bookingId, Expire): once the void is recorded
\* the booking's payment_status becomes 'expired'.
ResolveExpireBooking(bookings, bk, origin, ok) ==
  IF ok /\ origin = "sweep"
  THEN [bookings EXCEPT ![bk].payment_status = "expired"]
  ELSE bookings

cancelPaymentHold_update(p, outcome) ==
  /\ procs[p].op = "cancelPaymentHold" /\ procs[p].pc = "update"
  /\ outcome \in {"ok"} \cup (IF CanFault THEN {"update_failed"} ELSE {})
  /\ payments' = IF outcome = "ok"
                 THEN cancelPaymentHoldRows(payments, procs[p].id, procs[p].bk)
                 ELSE payments
  /\ ride_bookings' = ResolveExpireBooking(ride_bookings, procs[p].bk,
                                           procs[p].origin, outcome = "ok")
  /\ procs' = [procs EXCEPT ![p] =
       Finish(@, IF outcome = "ok" THEN "voided" ELSE "error")]
  /\ faults' = IF outcome = "ok" THEN faults ELSE faults + 1
  /\ UNCHANGED <<rides, rideAutomationService, payout_requests, now, earnings, orders, intents, currentBookingId,
                 popupOrder, lastOutcome, calls>>


\* ==================================================== settlement: card rail
\* api/stripe/payment-intents.ts works on Stripe's payment intents only; the
\* payment row of a card hold is kept by PaymentHoldService, which records
\* the terminal state once the call has succeeded.
RecordCardRow(pays, intentId, status) ==
  [i \in DOMAIN pays |->
     IF pays[i].payment_method = "card" /\ pays[i].payment_intent_id = intentId
     THEN [pays[i] EXCEPT !.status = status]
     ELSE pays[i]]

CardBooking(pays, intentId) ==
  LET rows == {i \in DOMAIN pays : pays[i].payment_method = "card"
                                   /\ pays[i].payment_intent_id = intentId}
  IN IF rows = {} THEN NoId ELSE pays[CHOOSE i \in rows : TRUE].booking_id

\* capturePaymentIntent({payment_intent_id}), invoked by a caller.
Invoke_capturePaymentIntent(p, i) ==
  /\ NextFree(p)
  /\ calls < MaxCalls
  /\ i \in DOMAIN intents
  /\ procs' = [procs EXCEPT ![p] =
       NewCall("capturePaymentIntent", "retrieve", i, CardBooking(payments, i),
               intents[i].status, FALSE, "caller")]
  /\ calls' = calls + 1
  /\ UNCHANGED <<rides, rideAutomationService, payout_requests, now, ride_bookings, payments, earnings, orders, intents,
                 currentBookingId, popupOrder, lastOutcome, faults>>

\* First await: stripe.paymentIntents.retrieve, then the status check.
capturePaymentIntent_retrieve(p, outcome) ==
  /\ procs[p].op = "capturePaymentIntent" /\ procs[p].pc = "retrieve"
  /\ outcome \in {"ok"} \cup (IF CanFault THEN {"network"} ELSE {})
  /\ procs' = [procs EXCEPT ![p] =
       IF outcome = "ok" /\ intents[procs[p].id].status = "requires_capture"
       THEN [@ EXCEPT !.pc = "capture"]
       ELSE Finish(@, "error")]
  /\ faults' = IF outcome = "ok" THEN faults ELSE faults + 1
  /\ UNCHANGED <<rides, rideAutomationService, payout_requests, now, ride_bookings, payments, earnings, orders, intents,
                 currentBookingId, popupOrder, lastOutcome, calls>>

\* Stripe captures an intent that is in requires_capture, and throws otherwise.
stripeCaptureAccepted(ints, i) == ints[i].status = "requires_capture"

stripeCapture(ints, i, delivered) ==
  [ints EXCEPT ![i] =
     [@ EXCEPT !.captureCalls = Bump(@),
               !.status = IF delivered /\ stripeCaptureAccepted(ints, i)
                          THEN "succeeded" ELSE @]]

\* Second await: stripe.paymentIntents.capture; the catch block returns
\* { success: false }.
capturePaymentIntent_capture(p, outcome) ==
  /\ procs[p].op = "capturePaymentIntent" /\ procs[p].pc = "capture"
  /\ LET i == procs[p].id
         accepted == stripeCaptureAccepted(intents, i)
     IN /\ outcome \in
             (IF accepted THEN {"captured"} ELSE {"rejected"}) \cup
             (IF CanFault THEN {"network"} ELSE {})
        /\ intents' = stripeCapture(intents, i, outcome = "captured")
        /\ payments' = IF outcome = "captured"
                       THEN RecordCardRow(payments, i, "succeeded") ELSE payments
        /\ ride_bookings' = ResolveAcceptBooking(ride_bookings, procs[p].bk,
                                                 outcome = "captured")
        /\ procs' = [procs EXCEPT ![p] =
             IF outcome = "captured"
             THEN Finish([@ EXCEPT !.issued = TRUE, !.changed = TRUE], "captured")
             ELSE Finish([@ EXCEPT !.issued = TRUE], "error")]
        /\ faults' = IF outcome = "network" THEN faults + 1 ELSE faults
  /\ UNCHANGED <<rides, rideAutomationService, payout_requests, now, earnings, orders, currentBookingId, popupOrder,
                 lastOutcome, calls>>

\* cancelPaymentIntent({payment_intent_id, cancellation_reason?}).
Invoke_cancelPaymentIntent(p, i, reason) ==
  /\ NextFree(p)
  /\ calls < MaxCalls
  /\ i \in DOMAIN intents
  /\ procs' = [procs EXCEPT ![p] =
       NewCall("cancelPaymentIntent", "retrieve", i, CardBooking(payments, i),
               intents[i].status, reason, "caller")]
  /\ calls' = calls + 1
  /\ UNCHANGED <<rides, rideAutomationService, payout_requests, now, ride_bookings, payments, earnings, orders, intents,
                 currentBookingId, popupOrder, lastOutcome, faults>>

\* A variant of Cancellable that lets a captured intent through as well.
Cancellable_withSucceeded ==
  {"requires_payment_method", "requires_capture", "requires_confirmation",
   "requires_action", "succeeded"}

\* The statuses cancelPaymentIntent lets through to the cancel.
Cancellable == {"requires_payment_method", "requires_capture",
                "requires_confirmation", "requires_action"}

\* First await: retrieve, then the status check; with a cancellation_reason
\* the metadata update comes before the cancel.
cancelPaymentIntent_retrieve(p, outcome) ==
  /\ procs[p].op = "cancelPaymentIntent" /\ procs[p].pc = "retrieve"
  /\ outcome \in {"ok"} \cup (IF CanFault THEN {"network"} ELSE {})
  /\ procs' = [procs EXCEPT ![p] =
       IF outcome = "ok" /\ intents[procs[p].id].status \in Cancellable
       THEN [@ EXCEPT !.pc = IF procs[p].reason THEN "metadata" ELSE "cancel"]
       ELSE Finish(@, "error")]
  /\ faults' = IF outcome = "ok" THEN faults ELSE faults + 1
  /\ UNCHANGED <<rides, rideAutomationService, payout_requests, now, ride_bookings, payments, earnings, orders, intents,
                 currentBookingId, popupOrder, lastOutcome, calls>>

\* Stripe updates the metadata of an intent in any status but canceled.
stripeUpdateAccepted(ints, i) == ints[i].status # "canceled"

\* Second await (only with a reason): stripe.paymentIntents.update writes
\* cancellation_reason and cancelled_at into the intent's metadata.
cancelPaymentIntent_metadata(p, outcome) ==
  /\ procs[p].op = "cancelPaymentIntent" /\ procs[p].pc = "metadata"
  /\ LET i == procs[p].id
         accepted == stripeUpdateAccepted(intents, i)
     IN /\ outcome \in
             (IF accepted THEN {"updated"} ELSE {"rejected"}) \cup
             (IF CanFault THEN {"network"} ELSE {})
        /\ intents' = IF outcome = "updated"
                      THEN [intents EXCEPT ![i].cancellation_metadata = TRUE]
                      ELSE intents
        /\ procs' = [procs EXCEPT ![p] =
             IF outcome = "updated"
             THEN [@ EXCEPT !.pc = "cancel", !.changed = TRUE]
             ELSE Finish(@, "error")]
        /\ faults' = IF outcome = "network" THEN faults + 1 ELSE faults
  /\ UNCHANGED <<rides, rideAutomationService, payout_requests, now, ride_bookings, payments, earnings, orders,
                 currentBookingId, popupOrder, lastOutcome, calls>>

\* Stripe cancels an intent that is not yet captured or canceled.
stripeCancelAccepted(ints, i) == ints[i].status \in Cancellable

stripeCancel(ints, i, delivered) ==
  [ints EXCEPT ![i] =
     [@ EXCEPT !.cancelCalls = Bump(@),
               !.status = IF delivered /\ stripeCancelAccepted(ints, i)
                          THEN "canceled" ELSE @]]

\* Last await: stripe.paymentIntents.cancel.
cancelPaymentIntent_cancel(p, outcome) ==
  /\ procs[p].op = "cancelPaymentIntent" /\ procs[p].pc = "cancel"
  /\ LET i == procs[p].id
         accepted == stripeCancelAccepted(intents, i)
         ok == outcome = "canceled"
     IN /\ outcome \in
             (IF accepted THEN {"canceled"} ELSE {"rejected"}) \cup
             (IF CanFault THEN {"network"} ELSE {})
        /\ intents' = stripeCancel(intents, i, ok)
        /\ payments' = IF ok THEN RecordCardRow(payments, i, "cancelled")
                       ELSE payments
        /\ ride_bookings' = IF procs[p].bk = NoId THEN ride_bookings
                            ELSE ResolveExpireBooking(ride_bookings, procs[p].bk,
                                                      procs[p].origin, ok)
        /\ procs' = [procs EXCEPT ![p] =
             IF ok
             THEN Finish([@ EXCEPT !.issued = TRUE, !.changed = TRUE], "voided")
             ELSE Finish([@ EXCEPT !.issued = TRUE], "error")]
        /\ faults' = IF outcome = "network" THEN faults + 1 ELSE faults
  /\ UNCHANGED <<rides, rideAutomationService, payout_requests, now, earnings, orders, currentBookingId, popupOrder,
                 lastOutcome, calls>>


\* ============================================================== earnings
\* Booking subsystem: the driver's decision on a pending request.
DriverDecision(b, decision) ==
  /\ b \in DOMAIN ride_bookings
  /\ ride_bookings[b].status = "pending"
  /\ decision \in {"confirmed", "declined"}
  /\ ride_bookings' = [ride_bookings EXCEPT ![b].status = decision]
  /\ UNCHANGED <<rides, rideAutomationService, payout_requests, now, payments, earnings, orders, intents, currentBookingId,
                 popupOrder, lastOutcome, procs, calls, faults>>

\* EarningsService.createEarning: a plain insert, status 'pending'.
createEarning(earns, bookingId) ==
  Append(earns, [booking_id |-> bookingId, status |-> "pending"])

\* EarningsService.syncEarningsFromBookings(driverId), invoked by a caller.
Invoke_syncEarningsFromBookings(p) ==
  /\ NextFree(p)
  /\ calls < MaxCalls
  /\ procs' = [procs EXCEPT ![p] =
       NewCall("syncEarningsFromBookings", "rides", NoId, NoId, "none", FALSE,
               "caller")]
  /\ calls' = calls + 1
  /\ UNCHANGED <<rides, rideAutomationService, payout_requests, now, ride_bookings, payments, earnings, orders, intents,
                 currentBookingId, popupOrder, lastOutcome, faults>>

\* The bookings of the fetched rides that pass the filter
\* status === 'confirmed' && payment_status === 'paid', in order.
SyncEligible(bookings) ==
  SelectSeq([i \in 1..Len(bookings) |-> i],
            LAMBDA i : bookings[i].status = "confirmed"
                       /\ bookings[i].payment_status = "paid")

\* First await: the rides and their bookings are read once.
syncEarnings_rides(p, outcome) ==
  /\ procs[p].op = "syncEarningsFromBookings" /\ procs[p].pc = "rides"
  /\ outcome \in {"ok"} \cup (IF CanFault THEN {"fetch_failed"} ELSE {})
  /\ procs' = [procs EXCEPT ![p] =
       IF outcome = "ok" /\ SyncEligible(ride_bookings) # <<>>
       THEN [@ EXCEPT !.pc = "existing", !.todo = SyncEligible(ride_bookings)]
       ELSE Finish(@, IF outcome = "ok" THEN "synced" ELSE "error")]
  /\ faults' = IF outcome = "ok" THEN faults ELSE faults + 1
  /\ UNCHANGED <<rides, rideAutomationService, payout_requests, now, ride_bookings, payments, earnings, orders, intents,
                 currentBookingId, popupOrder, lastOutcome, calls>>

\* .from('earnings').select('id').eq('booking_id', id).single(): data is the
\* row when exactly one matches, and null otherwise.
existingEarning(earns, bookingId) ==
  Cardinality({e \in DOMAIN earns : earns[e].booking_id = bookingId}) = 1

NextBooking(call) ==
  IF Len(call.todo) > 1
  THEN [call EXCEPT !.pc = "existing", !.todo = Tail(@)]
  ELSE Finish([call EXCEPT !.todo = <<>>], "synced")

\* Per booking, an await: is there an earning already?
syncEarnings_existing(p) ==
  /\ procs[p].op = "syncEarningsFromBookings" /\ procs[p].pc = "existing"
  /\ procs' = [procs EXCEPT ![p] =
       IF existingEarning(earnings, Head(procs[p].todo))
       THEN NextBooking(@)
       ELSE [@ EXCEPT !.pc = "create"]]
  /\ UNCHANGED <<rides, rideAutomationService, payout_requests, now, ride_bookings, payments, earnings, orders, intents,
                 currentBookingId, popupOrder, lastOutcome, calls, faults>>

\* ... and if not, another await: createEarning (null on an insert error).
syncEarnings_create(p, outcome) ==
  /\ procs[p].op = "syncEarningsFromBookings" /\ procs[p].pc = "create"
  /\ outcome \in {"ok"} \cup (IF CanFault THEN {"insert_failed"} ELSE {})
  /\ earnings' = IF outcome = "ok"
                 THEN createEarning(earnings, Head(procs[p].todo))
                 ELSE earnings
  /\ procs' = [procs EXCEPT ![p] =
       NextBooking(IF outcome = "ok" THEN [@ EXCEPT !.changed = TRUE] ELSE @)]
  /\ faults' = IF outcome = "ok" THEN faults ELSE faults + 1
  /\ UNCHANGED <<rides, rideAutomationService, payout_requests, now, ride_bookings, payments, orders, intents,
                 currentBookingId, popupOrder, lastOutcome, calls>>

\* ========================================================= expiry sweep
\* The holds the sweep's query returns: authorized, the booking's
\* response_deadline reached, no driver decision.
SweepDue(r) ==
  /\ r \in DOMAIN payments
  /\ payments[r].status = "requires_capture"
  /\ LET b == ride_bookings[payments[r].booking_id]
     IN /\ b.response_deadline # NoDeadline
        /\ b.response_deadline <= now
        /\ b.status = "pending"

SweepRunning == \E q \in ProcIds : procs[q].origin = "sweep" /\ ~Free(q)

\* One tick of the sweep resolves a due hold as Expire, through the void of
\* the hold's rail.
ExpirySweep(p, r) ==
  /\ NextFree(p)
  /\ ~SweepRunning
  /\ SweepDue(r)
  /\ procs' = [procs EXCEPT ![p] =
       IF payments[r].payment_method = "paypal"
       THEN NewCall("cancelPaymentHold", "void", payments[r].payment_intent_id,
                    payments[r].booking_id, payments[r].status, FALSE, "sweep")
       ELSE NewCall("cancelPaymentIntent", "retrieve",
                    payments[r].payment_intent_id, payments[r].booking_id,
                    intents[payments[r].payment_intent_id].status, TRUE, "sweep")]
  /\ UNCHANGED <<rides, rideAutomationService, payout_requests, now, ride_bookings, payments, earnings, orders, intents,
                 currentBookingId, popupOrder, lastOutcome, calls, faults>>

\* ================================================================= clock
Tick ==
  /\ now + TickHours <= MaxTime
  /\ now' = now + TickHours
  /\ UNCHANGED <<rides, rideAutomationService, payout_requests, ride_bookings, payments, earnings, orders, intents,
                 currentBookingId, popupOrder, lastOutcome, procs, calls, faults>>

\* ======================================================== specifications
UINext ==
  \/ \E o \in {"ok", "booking_failed", "seats_failed"} : handleRequestRide(o)
  \/ \E o \in {"ok", "order_failed", "insert_failed"} : PayPalButton_createOrder(o)
  \/ PayerApproves
  \/ \E o \in {"ok", "authorize_failed", "update_failed", "booking_update_failed"} :
       PayPalButton_onApprove(o)
  \/ PayPalButton_onCancel
  \/ PaymentModal_onCancel
  \/ \E o \in {"ok", "validation_failed", "duplicate_hold", "hold_failed",
               "booking_update_failed"} : PaymentModal_handlePayment(o)

PayPalNext ==
  \/ \E p \in ProcIds, r \in DOMAIN payments : Invoke_captureHeldPayment(p, r)
  \/ \E p \in ProcIds : captureHeldPayment_fetch(p)
  \/ \E p \in ProcIds, o \in {"completed", "rejected", "network", "not_completed"} :
       captureHeldPayment_capture(p, o)
  \/ \E p \in ProcIds, o \in {"ok", "update_failed"} : captureHeldPayment_update(p, o)
  \/ \E p \in ProcIds, r \in DOMAIN payments : Invoke_cancelPaymentHold(p, r)
  \/ \E p \in ProcIds, o \in {"voided", "rejected", "network"} :
       cancelPaymentHold_void(p, o)
  \/ \E p \in ProcIds, o \in {"ok", "update_failed"} : cancelPaymentHold_update(p, o)

StripeNext ==
  \/ \E p \in ProcIds, i \in DOMAIN intents : Invoke_capturePaymentIntent(p, i)
  \/ \E p \in ProcIds, o \in {"ok", "network"} : capturePaymentIntent_retrieve(p, o)
  \/ \E p \in ProcIds, o \in {"captured", "rejected", "network"} :
       capturePaymentIntent_capture(p, o)
  \/ \E p \in ProcIds, i \in DOMAIN intents, reason \in BOOLEAN :
       Invoke_cancelPaymentIntent(p, i, reason)
  \/ \E p \in ProcIds, o \in {"ok", "network"} : cancelPaymentIntent_retrieve(p, o)
  \/ \E p \in ProcIds, o \in {"updated", "rejected", "network"} :
       cancelPaymentIntent_metadata(p, o)
  \/ \E p \in ProcIds, o \in {"canceled", "rejected", "network"} :
       cancelPaymentIntent_cancel(p, o)

EarningsNext ==
  \/ \E b \in 1..MaxBookings, d \in {"confirmed", "declined"} : DriverDecision(b, d)
  \/ \E p \in ProcIds : Invoke_syncEarningsFromBookings(p)
  \/ \E p \in ProcIds, o \in {"ok", "fetch_failed"} : syncEarnings_rides(p, o)
  \/ \E p \in ProcIds : syncEarnings_existing(p)
  \/ \E p \in ProcIds, o \in {"ok", "insert_failed"} : syncEarnings_create(p, o)

\* Opening a hold: the passenger's session, and the clock.
Next == UINext \/ Tick

Spec == Init /\ [][Next]_vars

\* Settlement: the state after two passengers' requests, the first paid
\* through PayPal and the second by card, both approved.
SettleInit ==
  /\ now = 0
  /\ ride_bookings =
       << [status |-> "pending", payment_status |-> "paid",
           payment_intent_id |-> 1, response_deadline |-> NoDeadline],
          [status |-> "pending", payment_status |-> "authorized",
           payment_intent_id |-> 1, response_deadline |-> ResponseWindow] >>
  /\ payments =
       << [booking_id |-> 1, payment_method |-> "paypal", transaction_id |-> 1,
           payment_intent_id |-> 1, status |-> "requires_capture",
           payment_data |-> [paypal_order_id |-> 1, paypal_authorization_id |-> 1]],
          [booking_id |-> 2, payment_method |-> "card", transaction_id |-> NoId,
           payment_intent_id |-> 1, status |-> "requires_capture",
           payment_data |-> [paypal_order_id |-> NoId,
                             paypal_authorization_id |-> NoId]] >>
  /\ earnings = <<>>
  /\ orders = << [state |-> "AUTHORIZED", captureCalls |-> 0, voidCalls |-> 0] >>
  /\ intents = << NewIntent >>
  /\ currentBookingId = NoId
  /\ popupOrder = NoId
  /\ lastOutcome = "card_success"
  /\ procs = [p \in ProcIds |-> IdleProc]
  /\ calls = 0
  /\ faults = 0
  /\ payout_requests = <<>>
  /\ rideAutomationService = NewService
  /\ rides = <<>>

\* The two rails' capture and void calls alone.
RailNext == PayPalNext \/ StripeNext

RailSpec == SettleInit /\ [][RailNext]_vars

\* ... and with the drivers' decisions and the earnings sync.
SettleNext == RailNext \/ EarningsNext

SettleSpec == SettleInit /\ [][SettleNext]_vars

\* Expiry: from the same state, the clock, the drivers' decisions and the
\* sweep.  The clock advances, a due sweep runs and a call in flight takes
\* its next step: each is scheduled again and again.
CardCancelStep(p) ==
  \/ \E o \in {"ok", "network"} : cancelPaymentIntent_retrieve(p, o)
  \/ \E o \in {"updated", "rejected", "network"} : cancelPaymentIntent_metadata(p, o)
  \/ \E o \in {"canceled", "rejected", "network"} : cancelPaymentIntent_cancel(p, o)

SweepNext ==
  \/ Tick
  \/ \E b \in 1..MaxBookings, d \in {"confirmed", "declined"} : DriverDecision(b, d)
  \/ \E p \in ProcIds, r \in DOMAIN payments : ExpirySweep(p, r)
  \/ \E p \in ProcIds : CardCancelStep(p)

SweepSpec ==
  /\ SettleInit
  /\ [][SweepNext]_vars
  /\ WF_vars(Tick)
  /\ WF_vars(\E p \in ProcIds, r \in DOMAIN payments : ExpirySweep(p, r))
  /\ \A p \in ProcIds : WF_vars(CardCancelStep(p))

\* SettleInit is a state of Spec.
SettleInitReached == SettleInit

\* ================================================================ claims
CaptureOps == {"captureHeldPayment", "capturePaymentIntent"}
VoidOps == {"cancelPaymentHold", "cancelPaymentIntent"}

\* The provider-side state a settlement call works on, and the number of
\* capture calls the provider received for it.
ProviderState(call) ==
  IF call.op \in {"captureHeldPayment", "cancelPaymentHold"}
  THEN orders[call.id].state
  ELSE intents[call.id].status

ProviderCaptureCalls(call) ==
  IF call.op = "captureHeldPayment"
  THEN orders[call.id].captureCalls
  ELSE intents[call.id].captureCalls

\* The stored states in which an authorization is settled for good.
SettledStates == TerminalStatus \cup {"canceled"}

\* The non-terminal rows PayPalService.createPaymentHold opened for a booking.
OpenRows(b) ==
  {r \in DOMAIN payments : payments[r].booking_id = b
                            /\ payments[r].payment_method = "paypal"
                            /\ payments[r].status \in NonTerminalStatus}

EarningsOf(b) == {e \in DOMAIN earnings : earnings[e].booking_id = b}

Captured(b) ==
  \E r \in DOMAIN payments :
    payments[r].booking_id = b /\ payments[r].status = "succeeded"

\* C1: in every reachable state, however often PayPalButton.createOrder ran
\* for a booking, the booking has at most one payment row in a non-terminal
\* state (requires_action or requires_capture).
C1_OneOpenHoldPerBooking ==
  \A b \in DOMAIN ride_bookings : Cardinality(OpenRows(b)) <= 1

\* C2: whatever the interleaving of sync runs, a captured booking never has
\* more than one earnings row.
C2_OneEarningPerCapturedBooking ==
  \A b \in DOMAIN ride_bookings :
    Captured(b) => Cardinality(EarningsOf(b)) <= 1

\* C3: two capture requests made on the same authorization while it was
\* still held, with no fault of the environment, reach the provider with
\* exactly one capture call, and both return the captured state.
C3_ConcurrentCapturesCaptureOnce ==
  faults = 0 =>
    \A p, q \in ProcIds :
      ( /\ p # q
        /\ procs[p].op \in CaptureOps
        /\ procs[q].op = procs[p].op /\ procs[q].id = procs[p].id
        /\ procs[p].pre = "requires_capture" /\ procs[q].pre = "requires_capture"
        /\ procs[p].pc = "done" /\ procs[q].pc = "done" )
      => /\ ProviderCaptureCalls(procs[p]) = 1
         /\ procs[p].result = "captured" /\ procs[q].result = "captured"

\* C4: a capture or a void requested on an authorization that is already
\* settled (captured, voided, failed) issues no provider call and returns
\* the settled state, not an error.
C4_SettledRequestIsNoOp ==
  faults = 0 =>
    \A p \in ProcIds :
      ( /\ procs[p].op \in CaptureOps \cup VoidOps
        /\ procs[p].pre \in SettledStates
        /\ procs[p].pc = "done" )
      => ~procs[p].issued /\ procs[p].result # "error"

\* C5: when a capture and a void of one authorization race, the request
\* that loses (it ends in an error) has changed nothing, at the provider or
\* in the database.
C5_LoserChangesNothing ==
  faults = 0 =>
    \A p \in ProcIds :
      ( /\ procs[p].op \in CaptureOps \cup VoidOps
        /\ procs[p].pc = "done"
        /\ procs[p].result = "error" )
      => ~procs[p].changed

\* C6: every earnings row belongs to a booking whose payment was captured
\* (a payment row in 'succeeded').
C6_EarningsOnlyForCaptured ==
  \A e \in DOMAIN earnings : Captured(earnings[e].booking_id)

\* C7: a booking whose approval was recorded by handlePaymentSuccess has
\* payment_status 'authorized' and a response_deadline inside the fixed
\* response window.
C7_ApprovedBookingAuthorized ==
  \A b \in DOMAIN ride_bookings :
    ride_bookings[b].payment_intent_id # NoId =>
      /\ ride_bookings[b].payment_status = "authorized"
      /\ ride_bookings[b].response_deadline # NoDeadline
      /\ ride_bookings[b].response_deadline <= now + ResponseWindow

\* C8: a hold that is authorized and has no driver decision is eventually
\* voided with its booking marked expired, unless the driver decides.
HeldUndecided(r) ==
  /\ r \in DOMAIN payments
  /\ payments[r].status = "requires_capture"
  /\ ride_bookings[payments[r].booking_id].status = "pending"

ExpiredOrDecided(r) ==
  \/ ride_bookings[payments[r].booking_id].status # "pending"
  \/ /\ payments[r].status = "cancelled"
     /\ ride_bookings[payments[r].booking_id].payment_status = "expired"
     /\ EarningsOf(payments[r].booking_id) = {}

C8_UndecidedHoldEventuallyExpires ==
  \A r \in 1..MaxBookings : HeldUndecided(r) ~> ExpiredOrDecided(r)

\* C9: a capture step the provider did not perform ends the call with the
\* failure and leaves every payment row as it was; the row of the hold is
\* not moved to 'cancelled'.
FailedCaptureStep(p) ==
  /\ procs[p].op \in CaptureOps
  /\ procs[p].pc = "capture"
  /\ procs'[p] # procs[p]
  /\ ProviderState(procs[p])' = ProviderState(procs[p])

C9_FailedCaptureKeepsHold ==
  [][\A p \in ProcIds :
       FailedCaptureStep(p) =>
         /\ procs'[p].pc = "done" /\ procs'[p].result = "error"
         /\ payments' = payments]_vars

\* A capture PayPal or Stripe never performed (the request was lost) has
\* been reported as an error, and the hold's row is still requires_capture.
C9_FailedCaptureSeen ==
  \E p \in ProcIds :
    /\ procs[p].op \in CaptureOps
    /\ procs[p].pc = "done" /\ procs[p].result = "error" /\ procs[p].issued
    /\ ProviderState(procs[p]) \in {"AUTHORIZED", "requires_capture"}
    /\ \E r \in DOMAIN payments :
         /\ payments[r].booking_id = procs[p].bk
         /\ payments[r].status = "requires_capture"

\* C10: a step of opening a hold or confirming an approval that fails (the
\* order, the row insert, the authorize, the hold, or the payer or the
\* passenger cancelling) leaves every booking as it was.
FailedHoldStep ==
  \/ \E o \in {"order_failed", "insert_failed"} : PayPalButton_createOrder(o)
  \/ \E o \in {"authorize_failed", "update_failed", "booking_update_failed"} :
       PayPalButton_onApprove(o)
  \/ PayPalButton_onCancel
  \/ PaymentModal_onCancel
  \/ \E o \in {"validation_failed", "duplicate_hold", "hold_failed",
               "booking_update_failed"} : PaymentModal_handlePayment(o)

C10_FailedHoldLeavesBooking ==
  [][FailedHoldStep => ride_bookings' = ride_bookings]_vars

\* PayPal refused or lost the authorize after the payer approved, and the
\* booking is still as handleRequestRide inserted it, its modal still open.
C10_FailedApprovalSeen ==
  /\ lastOutcome = "authorize_failed"
  /\ currentBookingId # NoId
  /\ ride_bookings[currentBookingId] = NewBooking
  /\ \E r \in DOMAIN payments :
       payments[r].booking_id = currentBookingId
       /\ payments[r].status = "requires_action"

\* The payment rows of the authorization a settlement call works on.
RowsOfCall(call) ==
  IF call.op \in {"captureHeldPayment", "cancelPaymentHold"}
  THEN HeldRows(payments, call.id, call.bk)
  ELSE {r \in DOMAIN payments : payments[r].payment_method = "card"
                                 /\ payments[r].payment_intent_id = call.id}

\* C14: a void requested on an authorization that was already captured ends
\* in an error, changes nothing, and leaves the authorization and its
\* payment row captured.
C14_VoidAfterCaptureFails ==
  \A p \in ProcIds :
    ( /\ procs[p].op \in VoidOps
      /\ procs[p].pre = "succeeded"
      /\ procs[p].pc = "done" )
    => /\ procs[p].result = "error"
       /\ ~procs[p].changed
       /\ ProviderState(procs[p]) \in {"CAPTURED", "succeeded"}
       /\ \A r \in RowsOfCall(procs[p]) : payments[r].status = "succeeded"

\* PayPal has received the void of a captured authorization and rejected it;
\* cancelPaymentHold has thrown.
C14_VoidAfterCaptureSeen ==
  \E p \in ProcIds :
    /\ procs[p].op = "cancelPaymentHold" /\ procs[p].pre = "succeeded"
    /\ procs[p].pc = "done" /\ procs[p].issued /\ procs[p].result = "error"
    /\ orders[procs[p].id].state = "CAPTURED"

\* ====================================================== number arithmetic
\* The amounts of the code are JavaScript numbers: IEEE 754 doubles.  A
\* double is modelled exactly, as sign, integer mantissa and binary
\* exponent (value = mantissa * 2^exponent), the mantissa an unbounded
\* natural number kept as a sequence of limbs, least significant first.
\* Every operation computes the exact result and rounds it to 53 bits, to
\* nearest, ties to even.
LimbBits == 13
LimbBase == 8192
MantissaBits == 53
QuotientBits == 70

RECURSIVE Pow2(_)
Pow2(n) == IF n = 0 THEN 1 ELSE 2 * Pow2(n - 1)

RECURSIVE Trim(_)
Trim(A) == IF A # <<>> /\ A[Len(A)] = 0 THEN Trim(SubSeq(A, 1, Len(A) - 1)) ELSE A

RECURSIVE FromInt(_)
FromInt(n) == IF n = 0 THEN <<>> ELSE <<n % LimbBase>> \o FromInt(n \div LimbBase)

RECURSIVE ToInt(_)
ToInt(A) == IF A = <<>> THEN 0 ELSE A[1] + LimbBase * ToInt(Tail(A))

Limb(A, i) == IF i >= 1 /\ i <= Len(A) THEN A[i] ELSE 0

RECURSIVE AddFrom(_, _, _, _)
AddFrom(A, B, i, carry) ==
  IF i > Len(A) /\ i > Len(B)
  THEN (IF carry = 0 THEN <<>> ELSE <<carry>>)
  ELSE LET t == Limb(A, i) + Limb(B, i) + carry
       IN <<t % LimbBase>> \o AddFrom(A, B, i + 1, t \div LimbBase)

BigAdd(A, B) == AddFrom(A, B, 1, 0)

\* A - B, for A >= B.
RECURSIVE SubFrom(_, _, _, _)
SubFrom(A, B, i, borrow) ==
  IF i > Len(A)
  THEN <<>>
  ELSE LET t == Limb(A, i) - Limb(B, i) - borrow
       IN <<(t + LimbBase) % LimbBase>> \o
          SubFrom(A, B, i + 1, IF t < 0 THEN 1 ELSE 0)

BigSub(A, B) == Trim(SubFrom(A, B, 1, 0))

RECURSIVE LessFrom(_, _, _)
LessFrom(A, B, i) ==
  IF i = 0 THEN FALSE
  ELSE IF Limb(A, i) # Limb(B, i) THEN Limb(A, i) < Limb(B, i)
  ELSE LessFrom(A, B, i - 1)

BigLess(A, B) == LessFrom(A, B, IF Len(A) > Len(B) THEN Len(A) ELSE Len(B))

\* A * k, for 0 <= k < LimbBase.
RECURSIVE MulSmallFrom(_, _, _, _)
MulSmallFrom(A, k, i, carry) ==
  IF i > Len(A)
  THEN (IF carry = 0 THEN <<>> ELSE <<carry>>)
  ELSE LET t == A[i] * k + carry
       IN <<t % LimbBase>> \o MulSmallFrom(A, k, i + 1, t \div LimbBase)

MulSmall(A, k) == Trim(MulSmallFrom(A, k, 1, 0))

ShiftLimbs(A, n) == IF A = <<>> THEN <<>> ELSE [i \in 1..n |-> 0] \o A

RECURSIVE MulFrom(_, _, _)
MulFrom(A, B, i) ==
  IF i > Len(B) THEN <<>>
  ELSE BigAdd(ShiftLimbs(MulSmall(A, B[i]), i - 1), MulFrom(A, B, i + 1))

BigMul(A, B) == Trim(MulFrom(A, B, 1))

\* Quotient and remainder of A by d, for 0 < d < LimbBase.
RECURSIVE DivSmallFrom(_, _, _, _)
DivSmallFrom(A, d, i, rem) ==
  IF i = 0
  THEN [q |-> <<>>, r |-> rem]
  ELSE LET t == rem * LimbBase + A[i]
           rest == DivSmallFrom(A, d, i - 1, t % d)
       IN [q |-> Append(rest.q, t \div d), r |-> rest.r]

DivSmall(A, d) ==
  LET res == DivSmallFrom(A, d, Len(A), 0)
  IN [q |-> Trim(res.q), r |-> res.r]

RECURSIVE SmallBitLen(_)
SmallBitLen(n) == IF n = 0 THEN 0 ELSE 1 + SmallBitLen(n \div 2)

BitLen(A) ==
  IF A = <<>> THEN 0 ELSE (Len(A) - 1) * LimbBits + SmallBitLen(A[Len(A)])

\* A * 2^s and floor(A / 2^s).
ShiftLeft(A, s) ==
  ShiftLimbs(MulSmall(A, Pow2(s % LimbBits)), s \div LimbBits)

ShiftRight(A, s) ==
  LET q == s \div LimbBits
      r == s % LimbBits
      n == Len(A) - q
  IN IF n <= 0 THEN <<>>
     ELSE Trim([i \in 1..n |->
                  (A[i + q] \div Pow2(r))
                  + (Limb(A, i + q + 1) % Pow2(r)) * Pow2(LimbBits - r)])

\* The bits of A below bit s are not all zero; bit s of A.
LowBits(A, s) ==
  \/ \E i \in 1..Len(A) : i <= s \div LimbBits /\ A[i] # 0
  \/ Limb(A, s \div LimbBits + 1) % Pow2(s % LimbBits) # 0

Bit(A, s) == (Limb(A, s \div LimbBits + 1) \div Pow2(s % LimbBits)) % 2

\* --- doubles --------------------------------------------------------------
Double(neg, m, e) == [neg |-> neg, m |-> m, e |-> e]

\* The exact value (-1)^neg * (m + a fraction, nonzero iff sticky) * 2^e,
\* rounded to a double.
RoundDouble(neg, m, e, sticky) ==
  LET s == BitLen(m) - MantissaBits
  IN IF s <= 0
     THEN Double(neg /\ m # <<>>, m, e)
     ELSE LET kept == ShiftRight(m, s)
              half == Bit(m, s - 1) = 1
              rest == sticky \/ LowBits(m, s - 1)
              up == half /\ (rest \/ Bit(kept, 0) = 1)
          IN Double(neg, IF up THEN BigAdd(kept, <<1>>) ELSE kept, e + s)

\* An integer as a double (exact below 2^31).
DoubleOf(n) == Double(n < 0, FromInt(IF n < 0 THEN -n ELSE n), 0)

\* x * y.
DoubleMul(x, y) ==
  RoundDouble(x.neg # y.neg, BigMul(x.m, y.m), x.e + y.e, FALSE)

\* a / b for integers a and b, 0 < b < LimbBase: the double nearest to the
\* quotient.  It is also the double a decimal literal a/100 denotes.
DoubleDiv(a, b) ==
  LET n == ShiftLeft(FromInt(IF a < 0 THEN -a ELSE a), QuotientBits)
      d == DivSmall(n, b)
  IN RoundDouble(a < 0, d.q, 0 - QuotientBits, d.r # 0)

\* x - y.
DoubleSub(x, y) ==
  LET e == IF x.e < y.e THEN x.e ELSE y.e
      xm == ShiftLeft(x.m, x.e - e)
      ym == ShiftLeft(y.m, y.e - e)
      yneg == ~y.neg
  IN IF x.neg = yneg
     THEN RoundDouble(x.neg, BigAdd(xm, ym), e, FALSE)
     ELSE IF BigLess(xm, ym)
          THEN RoundDouble(yneg, BigSub(ym, xm), e, FALSE)
          ELSE RoundDouble(x.neg, BigSub(xm, ym), e, FALSE)

\* Math.round(x): the nearest integer, a tie going towards +Infinity.
MathRound(x) ==
  IF x.e >= 0
  THEN (IF x.neg THEN -1 ELSE 1) * ToInt(ShiftLeft(x.m, x.e))
  ELSE LET s == 0 - x.e
           whole == ToInt(ShiftRight(x.m, s))
           half == Bit(x.m, s - 1) = 1
           rest == LowBits(x.m, s - 1)
       IN IF x.neg
          THEN 0 - (whole + (IF half /\ rest THEN 1 ELSE 0))
          ELSE whole + (IF half THEN 1 ELSE 0)

\* Math.round(amount * 100) for the amount that the decimal cents/100
\* denotes: dollars to cents, as createPaymentIntent, capturePaymentIntent
\* and createRefund convert.
AmountInCents(cents) == MathRound(DoubleMul(DoubleDiv(cents, 100), DoubleOf(100)))

\* ========================================================== earning amounts
\* EarningsService.createEarning, the amounts: with grossAmount the decimal
\* grossCents/100 and serviceFeePercentage the integer pct,
\*   serviceFeeAmount = Math.round(grossAmount * (pct / 100) * 100) / 100
\*   netAmount = Math.round((grossAmount - serviceFeeAmount) * 100) / 100
\* each given here by its number of cents (the integer that Math.round
\* returned, before the division by 100).
serviceFeeCents(grossCents, pct) ==
  MathRound(DoubleMul(DoubleMul(DoubleDiv(grossCents, 100), DoubleDiv(pct, 100)),
                      DoubleOf(100)))

\* A variant of netAmountCents that stores the gross amount as the net.
netAmountCents_gross(grossCents, feeCents) == grossCents

netAmountCents(grossCents, feeCents) ==
  MathRound(DoubleMul(DoubleSub(DoubleDiv(grossCents, 100), DoubleDiv(feeCents, 100)),
                      DoubleOf(100)))

\* The row createEarning inserts, with its amounts in cents.
createEarning_amounts(earns, bookingId, grossCents, pct) ==
  LET fee == serviceFeeCents(grossCents, pct)
  IN Append(earns,
       [booking_id |-> bookingId, status |-> "pending",
        gross_amount |-> grossCents,
        service_fee_percentage |-> pct,
        service_fee_amount |-> fee,
        amount |-> netAmountCents(grossCents, fee)])

\* The gross amounts tried: every whole number of cents up to the bound,
\* 1.50 and 32.75.
GrossAmounts == 0..MaxGrossCents \cup {150, 3275}

\* createEarning(driverId, rideId, bookingId, grossAmount, description,
\* serviceFeePercentage): one call, on an empty earnings table.
createEarning_call(bookingId, grossCents, pct, outcome) ==
  /\ earnings = <<>>
  /\ outcome \in {"ok"} \cup (IF CanFault THEN {"insert_failed"} ELSE {})
  /\ earnings' = IF outcome = "ok"
                 THEN createEarning_amounts(earnings, bookingId, grossCents, pct)
                 ELSE earnings
  /\ lastOutcome' = IF outcome = "ok" THEN "earning_created" ELSE outcome
  /\ faults' = IF outcome = "ok" THEN faults ELSE faults + 1
  /\ UNCHANGED <<rides, rideAutomationService, payout_requests, now, ride_bookings, payments, orders, intents,
                 currentBookingId, popupOrder, procs, calls>>

FeeNext ==
  \E g \in GrossAmounts, pct \in 0..MaxPercent, o \in {"ok", "insert_failed"} :
    createEarning_call(1, g, pct, o)

FeeSpec == Init /\ [][FeeNext]_vars

\* The fee the specification asks for, in integer cents: gross * pct / 100
\* rounded half-up.
HalfUpFee(grossCents, pct) == (grossCents * pct + 50) \div 100

\* C17: the stored service fee is gross * feePercent / 100 rounded half-up
\* to the cent, and the stored net is gross minus that fee; 32.75 at 15 %
\* gives 4.91 and 27.84.
C17_FeeIsHalfUp ==
  \A e \in DOMAIN earnings :
    /\ earnings[e].service_fee_amount =
         HalfUpFee(earnings[e].gross_amount, earnings[e].service_fee_percentage)
    /\ earnings[e].amount = earnings[e].gross_amount - earnings[e].service_fee_amount
    /\ (earnings[e].gross_amount = 3275 /\ earnings[e].service_fee_percentage = 15)
         => earnings[e].service_fee_amount = 491 /\ earnings[e].amount = 2784

\* C18: for a gross amount in whole cents and a fee percentage from 0 to
\* 100, net + fee = gross to the cent, 0 <= fee <= gross and net >= 0.
C18_NetPlusFeeIsGross ==
  \A e \in DOMAIN earnings :
    earnings[e].service_fee_percentage <= 100 =>
      /\ earnings[e].amount + earnings[e].service_fee_amount = earnings[e].gross_amount
      /\ 0 <= earnings[e].service_fee_amount
      /\ earnings[e].service_fee_amount <= earnings[e].gross_amount
      /\ earnings[e].amount >= 0

\* An earning of 1.50 at 15 %: the fee is not a whole number of cents
\* before the rounding, and both the fee and the net are stored positive.
C18_SplitSeen ==
  \E e \in DOMAIN earnings :
    /\ earnings[e].gross_amount = 150 /\ earnings[e].service_fee_percentage = 15
    /\ earnings[e].service_fee_amount > 0 /\ earnings[e].amount > 0

\* ================================================= amounts on both rails
\* Amounts are dollars with two decimals in the code; here they are counted
\* in cents.  An optional argument is <<>> when absent and <<a>> when given.
\* `if (x)` on an optional number: absent and 0 are both falsy.
Truthy(a) == a # <<>> /\ a[1] # 0

\* The last API call made: what was asked (op, id, bk, user, supplied), the
\* state and the authorized amount it found (pre, authorized), whether a
\* request went to the provider and for how much (issued, sent), whether
\* the provider's state changed, and the result returned.
NoCall ==
  [op |-> "idle", id |-> NoId, bk |-> NoId, user |-> FALSE, supplied |-> <<>>,
   pre |-> "none", authorized |-> 0, sent |-> 0, issued |-> FALSE,
   changed |-> FALSE, result |-> "none"]

\* A payment intent as Stripe keeps it, with the refunds asked of it.
AmountIntent(cents) ==
  [status |-> "requires_capture", amount |-> cents, amount_received |-> 0,
   captureCalls |-> 0, refund_requested |-> 0, refunded |-> 0]

\* A PayPal order with its purchase unit's amount.
AmountOrder(cents, state) ==
  [state |-> state, amount |-> cents, captured |-> 0, captureCalls |-> 0]

\* The amounts the callers pass: -10.00, 0 and 10.00 to create; nothing,
\* -5.00, 0, 5.00, 10.00 and 15.00 to capture; nothing, 5.00, 10.00 and
\* 15.00 to refund.
CreateAmounts == {-1000, 0, 1000}

CaptureAmounts == {<<>>, <<-500>>, <<0>>, <<500>>, <<1000>>, <<1500>>}

RefundAmounts == {<<>>, <<500>>, <<1000>>, <<1500>>}

\* A card hold and a wallet hold of 10.00 have been authorized.
AmountInit ==
  /\ now = 0
  /\ ride_bookings = <<>>
  /\ payments =
       << [booking_id |-> 1, payment_method |-> "paypal", transaction_id |-> 1,
           payment_intent_id |-> 1, status |-> "requires_capture",
           amount |-> 1000] >>
  /\ earnings = <<>>
  /\ orders = << AmountOrder(1000, "AUTHORIZED") >>
  /\ intents = << AmountIntent(1000) >>
  /\ currentBookingId = NoId
  /\ popupOrder = NoId
  /\ lastOutcome = "none"
  /\ procs = [p \in ProcIds |-> NoCall]
  /\ calls = 0
  /\ faults = 0
  /\ payout_requests = <<>>
  /\ rideAutomationService = NewService
  /\ rides = <<>>

\* createPaymentIntent(request): the two validations, the conversion to
\* cents, stripe.paymentIntents.create.
createPaymentIntent(amount, bk, user, outcome) ==
  LET invalid == amount = 0 \/ amount <= 0
      missing == bk = NoId \/ ~user
      issued  == ~invalid /\ ~missing
      ok      == issued /\ outcome = "ok"
  IN /\ calls < MaxCalls
     /\ Len(intents) <= MaxIntents
     /\ outcome \in {"ok"} \cup (IF CanFault /\ issued THEN {"provider_error"} ELSE {})
     /\ intents' = IF ok THEN Append(intents, AmountIntent(AmountInCents(amount)))
                   ELSE intents
     /\ procs' = [procs EXCEPT ![1] =
          [NoCall EXCEPT !.op = "createPaymentIntent",
                         !.id = IF ok THEN Len(intents) + 1 ELSE NoId,
                         !.bk = bk, !.user = user, !.supplied = <<amount>>,
                         !.issued = issued, !.changed = ok,
                         !.result = IF ok THEN "ok" ELSE "error"]]
     /\ calls' = calls + 1
     /\ faults' = IF outcome = "ok" THEN faults ELSE faults + 1
     /\ UNCHANGED <<rides, rideAutomationService, payout_requests, now, ride_bookings, payments, earnings, orders,
                    currentBookingId, popupOrder, lastOutcome>>

\* capturePaymentIntent(request): retrieve, status check, capture amount,
\* stripe.paymentIntents.capture.  Without amount_to_capture in the
\* parameters Stripe captures the full amount; it refuses an amount below
\* one cent.
capturePaymentIntent(i, amt, outcome) ==
  LET pi            == intents[i]
      capturable    == pi.status = "requires_capture"
      captureAmount == IF Truthy(amt) THEN AmountInCents(amt[1]) ELSE pi.amount
      exceeds       == Truthy(amt) /\ captureAmount > pi.amount
      issued        == capturable /\ ~exceeds
      sent          == IF captureAmount < pi.amount THEN captureAmount ELSE pi.amount
      accepted      == issued /\ outcome = "ok" /\ sent >= 1
  IN /\ calls < MaxCalls
     /\ outcome \in {"ok"} \cup (IF CanFault /\ issued THEN {"provider_error"} ELSE {})
     /\ intents' = IF accepted
                   THEN [intents EXCEPT ![i] =
                           [@ EXCEPT !.status = "succeeded",
                                     !.amount_received = sent,
                                     !.captureCalls = Bump(@)]]
                   ELSE intents
     /\ procs' = [procs EXCEPT ![1] =
          [NoCall EXCEPT !.op = "capturePaymentIntent", !.id = i,
                         !.supplied = amt, !.pre = pi.status,
                         !.authorized = pi.amount,
                         !.sent = IF issued THEN sent ELSE 0,
                         !.issued = issued, !.changed = accepted,
                         !.result = IF accepted THEN "ok" ELSE "error"]]
     /\ calls' = calls + 1
     /\ faults' = IF outcome = "ok" THEN faults ELSE faults + 1
     /\ UNCHANGED <<rides, rideAutomationService, payout_requests, now, ride_bookings, payments, earnings, orders,
                    currentBookingId, popupOrder, lastOutcome>>

\* A variant of Refundable that lets any payment be refunded.
Refundable_any(status) == TRUE

\* createRefund: paymentIntent.status !== 'succeeded' is refused.
Refundable(status) == status = "succeeded"

\* createRefund(request): retrieve, status check, refund amount,
\* stripe.refunds.create.  Stripe refuses a refund beyond what is left of
\* the captured amount.
createRefund(i, amt, outcome) ==
  LET pi           == intents[i]
      refundAmount == IF Truthy(amt) THEN AmountInCents(amt[1]) ELSE pi.amount_received
      exceeds      == Truthy(amt) /\ refundAmount > pi.amount_received
      issued       == Refundable(pi.status) /\ ~exceeds
      accepted     == /\ issued /\ outcome = "ok" /\ refundAmount >= 1
                      /\ pi.refunded + refundAmount <= pi.amount_received
  IN /\ calls < MaxCalls
     /\ outcome \in {"ok"} \cup (IF CanFault /\ issued THEN {"provider_error"} ELSE {})
     /\ intents' = IF issued
                   THEN [intents EXCEPT ![i] =
                           [@ EXCEPT !.refund_requested = @ + refundAmount,
                                     !.refunded = IF accepted THEN @ + refundAmount ELSE @]]
                   ELSE intents
     /\ procs' = [procs EXCEPT ![1] =
          [NoCall EXCEPT !.op = "createRefund", !.id = i, !.supplied = amt,
                         !.pre = pi.status, !.authorized = pi.amount_received,
                         !.sent = IF issued THEN refundAmount ELSE 0,
                         !.issued = issued, !.changed = accepted,
                         !.result = IF accepted THEN "ok" ELSE "error"]]
     /\ calls' = calls + 1
     /\ faults' = IF outcome = "ok" THEN faults ELSE faults + 1
     /\ UNCHANGED <<rides, rideAutomationService, payout_requests, now, ride_bookings, payments, earnings, orders,
                    currentBookingId, popupOrder, lastOutcome>>

\* PayPalButton.createOrder with intent 'authorize': createPaymentHold when
\* the booking and the user are there, else PayPalService.createOrder; both
\* fetch an access token and post the order, whose value is
\* amount.toFixed(2) (the same number of cents for a two-decimal amount).
\* PayPal refuses a value below 0.01.
PayPalButton_createOrder_amount(amount, bk, user, outcome) ==
  LET hold     == bk # NoId /\ user
      accepted == outcome # "provider_error" /\ amount >= 1
      ok       == accepted /\ outcome = "ok"
  IN /\ calls < MaxCalls
     /\ Len(orders) < MaxOrders
     /\ outcome \in {"ok"}
          \cup (IF CanFault THEN {"provider_error"} ELSE {})
          \cup (IF CanFault /\ hold /\ amount >= 1 THEN {"insert_failed"} ELSE {})
     /\ orders' = IF accepted THEN Append(orders, AmountOrder(amount, "CREATED"))
                  ELSE orders
     /\ payments' = IF ok /\ hold
                    THEN Append(payments,
                           [booking_id |-> bk, payment_method |-> "paypal",
                            transaction_id |-> Len(orders) + 1,
                            payment_intent_id |-> NoId,
                            status |-> "requires_action", amount |-> amount])
                    ELSE payments
     /\ procs' = [procs EXCEPT ![1] =
          [NoCall EXCEPT !.op = "createOrder",
                         !.id = IF accepted THEN Len(orders) + 1 ELSE NoId,
                         !.bk = bk, !.user = user, !.supplied = <<amount>>,
                         !.sent = amount, !.issued = TRUE, !.changed = accepted,
                         !.result = IF ok THEN "ok" ELSE "error"]]
     /\ calls' = calls + 1
     /\ faults' = IF outcome = "ok" THEN faults ELSE faults + 1
     /\ UNCHANGED <<rides, rideAutomationService, payout_requests, now, ride_bookings, earnings, intents, currentBookingId,
                    popupOrder, lastOutcome>>

\* PayPalService.captureHeldPayment(authorizationId, bookingId, amount?):
\* the payment record, amount || paymentRecord.amount, captureAuthorization,
\* the payments update.  PayPal refuses a value below 0.01 and an
\* authorization that is not open; above the authorized amount the answer
\* is PayPal's to give.
PayPalService_captureHeldPayment(a, bk, amt, outcome) ==
  LET rows          == {r \in DOMAIN payments :
                          /\ payments[r].payment_intent_id = a
                          /\ payments[r].booking_id = bk}
      found         == Cardinality(rows) = 1
      paymentRecord == payments[CHOOSE r \in rows : TRUE]
      captureAmount == IF Truthy(amt) THEN amt[1] ELSE paymentRecord.amount
      over          == found /\ captureAmount > orders[a].amount
      accepted      == /\ found /\ outcome \in {"ok", "update_failed"}
                       /\ orders[a].state = "AUTHORIZED" /\ captureAmount >= 1
      ok            == accepted /\ outcome = "ok"
  IN /\ calls < MaxCalls
     /\ outcome \in {"ok"}
          \cup (IF found /\ (CanFault \/ over) THEN {"provider_error"} ELSE {})
          \cup (IF found /\ CanFault THEN {"update_failed"} ELSE {})
     /\ orders' = IF accepted
                  THEN [orders EXCEPT ![a] =
                          [@ EXCEPT !.state = "CAPTURED",
                                    !.captured = captureAmount,
                                    !.captureCalls = Bump(@)]]
                  ELSE orders
     /\ payments' = IF ok
                    THEN [r \in DOMAIN payments |->
                            IF r \in rows
                            THEN [payments[r] EXCEPT !.status = "succeeded"]
                            ELSE payments[r]]
                    ELSE payments
     /\ procs' = [procs EXCEPT ![1] =
          [NoCall EXCEPT !.op = "captureHeldPayment", !.id = a, !.bk = bk,
                         !.supplied = amt,
                         !.pre = IF found THEN paymentRecord.status ELSE "none",
                         !.authorized = orders[a].amount,
                         !.sent = IF found THEN captureAmount ELSE 0,
                         !.issued = found, !.changed = accepted,
                         !.result = IF ok THEN "ok" ELSE "error"]]
     /\ calls' = calls + 1
     /\ faults' = IF outcome = "ok" THEN faults ELSE Min(faults + 1, MaxFaults)
     /\ UNCHANGED <<rides, rideAutomationService, payout_requests, now, ride_bookings, earnings, intents, currentBookingId,
                    popupOrder, lastOutcome>>

AmountNext ==
  \/ \E amount \in CreateAmounts, bk \in {NoId, 1}, user \in BOOLEAN,
        o \in {"ok", "provider_error"} :
       createPaymentIntent(amount, bk, user, o)
  \/ \E i \in DOMAIN intents, amt \in CaptureAmounts, o \in {"ok", "provider_error"} :
       capturePaymentIntent(i, amt, o)
  \/ \E amount \in CreateAmounts, bk \in {NoId, 1}, user \in BOOLEAN,
        o \in {"ok", "provider_error", "insert_failed"} :
       PayPalButton_createOrder_amount(amount, bk, user, o)
  \/ \E a \in DOMAIN orders, amt \in CaptureAmounts,
        o \in {"ok", "provider_error", "update_failed"} :
       PayPalService_captureHeldPayment(a, 1, amt, o)

AmountSpec == AmountInit /\ [][AmountNext]_vars

\* The card hold alone, captured and refunded.
RefundNext ==
  \/ \E i \in DOMAIN intents, amt \in CaptureAmounts, o \in {"ok", "provider_error"} :
       capturePaymentIntent(i, amt, o)
  \/ \E i \in DOMAIN intents, amt \in RefundAmounts, o \in {"ok", "provider_error"} :
       createRefund(i, amt, o)

RefundSpec == AmountInit /\ [][RefundNext]_vars

LastCall == procs[1]

\* C11: on both rails a create request with amount <= 0, or with the
\* booking or the user missing, is rejected before any request goes to the
\* provider.
C11_InvalidCreateRejectedOffline ==
  (/\ LastCall.op \in {"createPaymentIntent", "createOrder"}
   /\ (LastCall.supplied[1] <= 0 \/ LastCall.bk = NoId \/ ~LastCall.user))
    => ~LastCall.issued /\ LastCall.result = "error"

\* C12: on both rails a capture request for more than the authorized
\* amount is rejected before the provider's capture is called, and the
\* authorization is left as it was.
C12_OverCaptureRejectedOffline ==
  (/\ LastCall.op \in {"capturePaymentIntent", "captureHeldPayment"}
   /\ LastCall.pre = "requires_capture"
   /\ LastCall.supplied # <<>>
   /\ LastCall.supplied[1] > LastCall.authorized)
    => ~LastCall.issued /\ ~LastCall.changed /\ LastCall.result = "error"

\* C13: capturePaymentIntent on a capturable intent asks the provider for
\* the full authorized amount when no amount was supplied and for the
\* supplied amount otherwise, and what is captured is more than 0 and at
\* most the authorized amount whatever was supplied.
C13_CaptureAmountSent ==
  (LastCall.op = "capturePaymentIntent" /\ LastCall.pre = "requires_capture")
    => /\ LastCall.issued =>
            LastCall.sent = IF LastCall.supplied = <<>> THEN LastCall.authorized
                            ELSE LastCall.supplied[1]
       /\ LastCall.changed =>
            /\ intents[LastCall.id].amount_received > 0
            /\ intents[LastCall.id].amount_received <= LastCall.authorized

\* C15: createRefund asks the provider for a refund only when the payment
\* is 'succeeded'; in any other state it returns an error and no refund
\* exists.
C15_RefundOnlyAfterCapture ==
  /\ (LastCall.op = "createRefund" /\ LastCall.pre # "succeeded")
       => ~LastCall.issued /\ LastCall.result = "error"
  /\ \A i \in DOMAIN intents :
       intents[i].status # "succeeded"
         => intents[i].refund_requested = 0 /\ intents[i].refunded = 0

\* createRefund was called on an intent that was still only authorized.
C15_RefundBeforeCaptureSeen ==
  /\ LastCall.op = "createRefund" /\ LastCall.pre = "requires_capture"
  /\ LastCall.result = "error"
  /\ intents[LastCall.id].status = "requires_capture"

\* C16: after any sequence of createRefund calls on a captured payment the
\* refunds asked of the provider add up to at most the captured amount,
\* and the payment was captured at most once.
C16_RefundsWithinCapture ==
  \A i \in DOMAIN intents :
    /\ intents[i].refund_requested <= intents[i].amount_received
    /\ intents[i].captureCalls <= 1

\* ======================================================= Stripe webhooks
\* The last request the endpoint served: its method, whether its signature
\* verified, the event it carried, the per-event handler it was given to,
\* whether that handler threw, and the HTTP status of the response.
NoRequest ==
  [op |-> "idle", method |-> "none", signed |-> FALSE, verified |-> FALSE, id |-> NoId,
   type |-> "none", handledBy |-> "none", threw |-> FALSE, status |-> 0]

EventTypes ==
  {"payment_intent.succeeded", "payment_intent.payment_failed",
   "payment_intent.canceled", "payment_intent.requires_action",
   "customer.created", "customer.updated", "customer.deleted",
   "payment_method.attached", "payment_method.detached",
   "setup_intent.succeeded", "setup_intent.setup_failed",
   "charge.succeeded", "charge.failed", "charge.captured",
   "invoice.paid"}

\* The switch on event.type.
HandlerOf(type) ==
  CASE type \in {"payment_intent.succeeded", "payment_intent.payment_failed",
                 "payment_intent.canceled", "payment_intent.requires_action"}
         -> "handlePaymentIntentEvent"
    [] type \in {"customer.created", "customer.updated", "customer.deleted"}
         -> "handleCustomerEvent"
    [] type \in {"payment_method.attached", "payment_method.detached"}
         -> "handlePaymentMethodEvent"
    [] type \in {"setup_intent.succeeded", "setup_intent.setup_failed"}
         -> "handleSetupIntentEvent"
    [] type \in {"charge.succeeded", "charge.failed", "charge.captured"}
         -> "handleChargeEvent"
    [] OTHER -> "none"

\* handler(req, res): the method check, constructEvent, the switch, the
\* response.  The per-event handlers log and write nothing; one of them
\* may throw.
\* A variant of Verified that skips the signature verification.
Verified_unsigned(method, signed) == method = "POST"

\* The event handlers are reached past the method check and constructEvent.
Verified(method, signed) == method = "POST" /\ signed

handler(method, signed, id, type, outcome) ==
  LET verified == Verified(method, signed)
      handledBy == IF verified THEN HandlerOf(type) ELSE "none"
      threw == outcome = "handler_throws"
      status == IF method # "POST" THEN 405
                ELSE IF ~signed THEN 400
                ELSE IF threw THEN 500
                ELSE 200
  IN /\ calls < MaxCalls
     /\ outcome \in {"ok"}
          \cup (IF CanFault /\ handledBy # "none" THEN {"handler_throws"} ELSE {})
     /\ procs' = [procs EXCEPT ![1] =
          [op |-> "handler", method |-> method, signed |-> signed,
           verified |-> verified,
           id |-> id, type |-> type, handledBy |-> handledBy,
           threw |-> threw, status |-> status]]
     /\ calls' = calls + 1
     /\ faults' = IF outcome = "ok" THEN faults ELSE faults + 1
     /\ UNCHANGED <<rides, rideAutomationService, payout_requests, now, ride_bookings, payments, earnings, orders, intents,
                    currentBookingId, popupOrder, lastOutcome>>

WebhookInit ==
  /\ now = 0
  /\ ride_bookings = <<>>
  /\ payments = <<>>
  /\ earnings = <<>>
  /\ orders = <<>>
  /\ intents = <<>>
  /\ currentBookingId = NoId
  /\ popupOrder = NoId
  /\ lastOutcome = "none"
  /\ procs = [p \in ProcIds |-> NoRequest]
  /\ calls = 0
  /\ faults = 0
  /\ payout_requests = <<>>
  /\ rideAutomationService = NewService
  /\ rides = <<>>

WebhookNext ==
  \E method \in {"POST", "GET"}, signed \in BOOLEAN, id \in 1..2,
     type \in EventTypes, o \in {"ok", "handler_throws"} :
    handler(method, signed, id, type, o)

WebhookSpec == WebhookInit /\ [][WebhookNext]_vars

LastRequest == procs[1]

\* C19: once an event has passed signature verification the handler
\* answers 200 whatever its processing did, also when the per-event
\* handler throws; and a delivery, repeated or not, changes no stored
\* state.
C19_VerifiedEventAcknowledged ==
  /\ (LastRequest.op = "handler" /\ LastRequest.verified) => LastRequest.status = 200
  /\ ride_bookings = <<>> /\ payments = <<>> /\ earnings = <<>>
  /\ orders = <<>> /\ intents = <<>>

\* ================================================================ payouts
\* A PayoutRequestModal: where it stands (pc), the availableAmount prop it
\* was opened with, the requestAmount typed, how its submit ended, and
\* whether the submit created a payout request.
NoModal ==
  [op |-> "idle", pc |-> "idle", availableAmount |-> 0, requestAmount |-> 0,
   result |-> "none", created |-> FALSE]

RECURSIVE SumNet(_, _)
\* The net amounts of the earnings in rows, added up.
SumNet(earns, rows) ==
  IF rows = {} THEN 0
  ELSE LET r == CHOOSE x \in rows : TRUE
       IN earns[r].amount + SumNet(earns, rows \ {r})

AvailableRows(earns) == {e \in DOMAIN earns : earns[e].status = "available"}

\* fetchDriverEarnings: pendingPayouts, the sum of the net amounts of the
\* earnings in status 'available'.
pendingPayouts(earns) == SumNet(earns, AvailableRows(earns))

\* The amounts typed into the modal, in cents.
PayoutAmounts == {-500, 0, 500, 1000, 1500, 2000}

\* A driver with two available earnings and one still pending.
PayoutInit ==
  /\ now = 0
  /\ ride_bookings = <<>>
  /\ payments = <<>>
  /\ payout_requests = <<>>
  /\ rideAutomationService = NewService
  /\ rides = <<>>
  /\ earnings = << [booking_id |-> 1, status |-> "available", amount |-> 1000],
                   [booking_id |-> 2, status |-> "available", amount |-> 500],
                   [booking_id |-> 3, status |-> "pending", amount |-> 500] >>
  /\ orders = <<>>
  /\ intents = <<>>
  /\ currentBookingId = NoId
  /\ popupOrder = NoId
  /\ lastOutcome = "none"
  /\ procs = [p \in ProcIds |-> NoModal]
  /\ calls = 0
  /\ faults = 0

\* The modal opens with availableAmount from the earnings just fetched and
\* requestAmount set to it.
PayoutRequestModal_open(p) ==
  /\ procs[p].pc \in {"idle", "done"}
  /\ calls < MaxCalls
  /\ procs' = [procs EXCEPT ![p] =
       [NoModal EXCEPT !.op = "PayoutRequestModal", !.pc = "open",
                       !.availableAmount = pendingPayouts(earnings),
                       !.requestAmount = pendingPayouts(earnings)]]
  /\ calls' = calls + 1
  /\ UNCHANGED <<rides, rideAutomationService, payout_requests, now, ride_bookings, payments, earnings,
                 orders, intents, currentBookingId, popupOrder, lastOutcome,
                 faults>>

\* handleAmountChange: Math.min(value, availableAmount).
handleAmountChange(p, value) ==
  /\ procs[p].pc = "open"
  /\ procs' = [procs EXCEPT ![p].requestAmount = Min(value, procs[p].availableAmount)]
  /\ UNCHANGED <<rides, rideAutomationService, payout_requests, now, ride_bookings, payments, earnings,
                 orders, intents, currentBookingId, popupOrder, lastOutcome,
                 calls, faults>>

\* handleSubmit up to the call of EarningsService.requestPayout: the amount
\* is checked against the availableAmount prop, and the payment details
\* must be filled in.
handleSubmit(p, detailsFilled) ==
  LET invalid == \/ procs[p].requestAmount <= 0
                 \/ procs[p].requestAmount > procs[p].availableAmount
                 \/ ~detailsFilled
  IN /\ procs[p].pc = "open"
     /\ procs' = [procs EXCEPT ![p] =
          IF invalid THEN [@ EXCEPT !.result = "invalid"]
          ELSE [@ EXCEPT !.pc = "requestPayout", !.result = "none"]]
     /\ UNCHANGED <<rides, rideAutomationService, payout_requests, now, ride_bookings, payments, earnings,
                    orders, intents, currentBookingId, popupOrder, lastOutcome,
                    calls, faults>>

\* A variant of PayoutAllowed that takes the caller's word for the amount.
PayoutAllowed_unchecked(amount, available) == amount > 0

\* process_payout_request: the request is created only for an amount the
\* available earnings cover.
PayoutAllowed(amount, available) == amount > 0 /\ amount <= available

\* process_payout_request, in one transaction: the payout request row, and
\* the available earnings it debits moved to 'requested'.
process_payout_request(earns, requests, amount) ==
  LET debited == AvailableRows(earns)
  IN [earnings |-> [e \in DOMAIN earns |->
                      IF e \in debited THEN [earns[e] EXCEPT !.status = "requested"]
                      ELSE earns[e]],
      payout_requests |->
        Append(requests,
          [amount |-> amount, status |-> "pending", debited |-> debited])]

\* EarningsService.requestPayout: the rpc, then the fetch of the created
\* row; null on any error.  handleSubmit then closes the modal or shows the
\* error.
requestPayout(p, outcome) ==
  LET amount  == procs[p].requestAmount
      allowed == PayoutAllowed(amount, pendingPayouts(earnings))
      created == allowed /\ outcome \in {"ok", "fetch_failed"}
      done    == process_payout_request(earnings, payout_requests, amount)
  IN /\ procs[p].pc = "requestPayout"
     /\ outcome \in {"ok"} \cup (IF CanFault THEN {"rpc_failed", "fetch_failed"} ELSE {})
     /\ earnings' = IF created THEN done.earnings ELSE earnings
     /\ payout_requests' = IF created THEN done.payout_requests ELSE payout_requests
     /\ procs' = [procs EXCEPT ![p] =
          [@ EXCEPT !.pc = "done", !.created = created,
                    !.result = IF created /\ outcome = "ok" THEN "ok" ELSE "failed"]]
     /\ faults' = IF outcome = "ok" THEN faults ELSE faults + 1
     /\ UNCHANGED <<rides, rideAutomationService, now, ride_bookings, payments, orders, intents,
                    currentBookingId, popupOrder, lastOutcome, calls>>

\* The process outside the core that makes a pending earning available.
PromoteEarning(e) ==
  /\ earnings[e].status = "pending"
  /\ earnings' = [earnings EXCEPT ![e].status = "available"]
  /\ UNCHANGED <<rides, rideAutomationService, payout_requests, now, ride_bookings, payments, orders,
                 intents, currentBookingId, popupOrder, lastOutcome, procs,
                 calls, faults>>

PayoutNext ==
  \/ \E p \in ProcIds : PayoutRequestModal_open(p)
  \/ \E p \in ProcIds, value \in PayoutAmounts : handleAmountChange(p, value)
  \/ \E p \in ProcIds, filled \in BOOLEAN : handleSubmit(p, filled)
  \/ \E p \in ProcIds, o \in {"ok", "rpc_failed", "fetch_failed"} : requestPayout(p, o)
  \/ \E e \in DOMAIN earnings : PromoteEarning(e)

PayoutSpec == PayoutInit /\ [][PayoutNext]_vars

C30_HandlersOnlyAfterVerification ==
  LastRequest.op = "handler" =>
    /\ LastRequest.method # "POST"
         => LastRequest.status = 405 /\ LastRequest.handledBy = "none"
    /\ (LastRequest.method = "POST" /\ ~LastRequest.signed)
         => LastRequest.status = 400 /\ LastRequest.handledBy = "none"
    /\ LastRequest.handledBy # "none"
         => LastRequest.method = "POST" /\ LastRequest.signed

\* A POST with a bad signature was turned away, after a GET was.
C30_UnverifiedTurnedAway ==
  /\ LastRequest.op = "handler" /\ LastRequest.method = "POST"
  /\ ~LastRequest.signed /\ LastRequest.status = 400
  /\ LastRequest.type = "payment_intent.succeeded"
  /\ calls >= 2

\* C29: requestPayout returns null, and the modal reports a failure, only
\* when no payout request was created.
C29_FailureMeansNoRequest ==
  \A p \in ProcIds :
    (procs[p].pc = "done" /\ procs[p].result = "failed") => ~procs[p].created

\* No other PayPal settlement call on the same authorization is under way.
AloneOn(p) ==
  \A q \in ProcIds :
    (q # p /\ procs[q].op \in {"captureHeldPayment", "cancelPaymentHold"}
     /\ procs[q].id = procs[p].id) => procs[q].pc \in {"idle", "done"}

\* C24: when captureHeldPayment or cancelPaymentHold has finished, by
\* returning or by throwing, the payment row agrees with the provider: it
\* is 'succeeded' exactly when the capture completed and 'cancelled'
\* exactly when the void completed.
C24_RowAgreesWithProvider ==
  \A p \in ProcIds :
    ( /\ procs[p].op \in {"captureHeldPayment", "cancelPaymentHold"}
      /\ procs[p].pc = "done"
      /\ AloneOn(p) )
    => \A r \in HeldRows(payments, procs[p].id, procs[p].bk) :
         /\ payments[r].status = "succeeded" <=> orders[procs[p].id].state = "CAPTURED"
         /\ payments[r].status = "cancelled" <=> orders[procs[p].id].state = "VOIDED"

\* C26: when cancelPaymentIntent returns failure it has written nothing to
\* the payment intent, neither its status nor its metadata.
C26_FailedCancelLeavesIntent ==
  \A p \in ProcIds :
    ( /\ procs[p].op = "cancelPaymentIntent"
      /\ procs[p].pc = "done"
      /\ procs[p].result = "error" )
    => ~procs[p].changed

\* C27: the provider identifiers in a PayPal row's payment_data, the order
\* id and the authorization id, are still there after captureHeldPayment
\* and after cancelPaymentHold.
C27_ProviderIdsPreserved ==
  \A r \in DOMAIN payments :
    ( /\ payments[r].payment_method = "paypal"
      /\ payments[r].status \in {"succeeded", "cancelled"} )
    => /\ payments[r].payment_data.paypal_order_id # NoId
       /\ payments[r].payment_data.paypal_authorization_id # NoId

\* ====================================== processAuthorization, called freely
\* A variant of processAuthorizationWrites that updates the row whatever
\* authorizeOrder answered.
processAuthorizationWrites_always(outcome) == TRUE

\* processAuthorization updates the payment row only when authorizeOrder
\* has returned an authorization; a throw skips the update.
processAuthorizationWrites(outcome) == outcome = "ok"

\* PayPalService.processAuthorization(orderId, bookingId, userId) called on
\* any order, whatever its state: authorizeOrder, then the payments update.
\* PayPal authorizes an approved order and refuses any other.
PayPalService_processAuthorization(orderId, bk, outcome) ==
  LET accepted == authorizeAccepted(orders, orderId)
      authorized == accepted /\ outcome \in {"ok", "update_failed"}
      writes == processAuthorizationWrites(outcome)
  IN /\ calls < MaxCalls
     /\ outcome \in
          (IF accepted THEN {"ok"} ELSE {"rejected"}) \cup
          (IF CanFault THEN {"authorize_failed"} ELSE {}) \cup
          (IF CanFault /\ accepted THEN {"update_failed"} ELSE {})
     /\ orders' = IF authorized THEN authorizeOrder(orders, orderId) ELSE orders
     /\ payments' = IF writes THEN processAuthorizationRows(payments, orderId, bk)
                    ELSE payments
     /\ procs' = [procs EXCEPT ![1] =
          Finish([NewCall("processAuthorization", "done", orderId, bk,
                          orders[orderId].state, FALSE, "caller")
                    EXCEPT !.issued = TRUE,
                           !.changed = authorized \/ payments' # payments],
                 IF outcome = "ok" THEN "authorized" ELSE "error")]
     /\ calls' = calls + 1
     /\ faults' = IF outcome \in {"ok", "rejected"} THEN faults ELSE faults + 1
     /\ UNCHANGED <<rides, rideAutomationService, payout_requests, now, ride_bookings, earnings, intents,
                    currentBookingId, popupOrder, lastOutcome>>

\* PayPalService.cancelPaymentHold(authorizationId, bookingId) called with
\* what the row holds, whatever its state: voidAuthorization, then the
\* payments update.  Before processAuthorization has run the row has no
\* authorization id, and PayPal knows no such authorization.
PayPalService_cancelPaymentHold(r, outcome) ==
  LET a        == payments[r].payment_intent_id
      bk       == payments[r].booking_id
      exists   == a \in DOMAIN orders
      accepted == exists /\ voidAccepted(orders, a)
      voided   == accepted /\ outcome \in {"voided", "update_failed"}
  IN /\ calls < MaxCalls
     /\ payments[r].payment_method = "paypal"
     /\ outcome \in
          (IF accepted THEN {"voided"} ELSE {"rejected"}) \cup
          (IF CanFault THEN {"network"} ELSE {}) \cup
          (IF CanFault /\ accepted THEN {"update_failed"} ELSE {})
     /\ orders' = IF exists THEN voidAuthorization(orders, a, voided) ELSE orders
     /\ payments' = IF outcome = "voided" THEN cancelPaymentHoldRows(payments, a, bk)
                    ELSE payments
     /\ procs' = [procs EXCEPT ![1] =
          Finish([NewCall("cancelPaymentHold", "done", a, bk,
                          payments[r].status, FALSE, "caller")
                    EXCEPT !.issued = TRUE, !.changed = voided],
                 IF outcome = "voided" THEN "voided" ELSE "error")]
     /\ calls' = calls + 1
     /\ faults' = IF outcome \in {"voided", "rejected"} THEN faults ELSE faults + 1
     /\ UNCHANGED <<rides, rideAutomationService, payout_requests, now, ride_bookings, earnings, intents,
                    currentBookingId, popupOrder, lastOutcome>>

AuthorizeNext ==
  \/ \E r \in DOMAIN payments, o \in {"voided", "rejected", "network", "update_failed"} :
       PayPalService_cancelPaymentHold(r, o)
  \/ \E o \in {"ok", "booking_failed", "seats_failed"} : handleRequestRide(o)
  \/ \E o \in {"ok", "order_failed", "insert_failed"} : PayPalButton_createOrder(o)
  \/ PayerApproves
  \/ \E o \in {"ok", "authorize_failed", "update_failed", "booking_update_failed"} :
       PayPalButton_onApprove(o)
  \/ \E orderId \in DOMAIN orders, bk \in DOMAIN ride_bookings,
        o \in {"ok", "rejected", "authorize_failed", "update_failed"} :
       PayPalService_processAuthorization(orderId, bk, o)

AuthorizeSpec == Init /\ [][AuthorizeNext]_vars

\* C22: an order is authorized only once its payer has approved it: a row
\* says 'requires_capture' only for an order PayPal has authorized, a
\* processAuthorization on an order that is not approved (not yet, or
\* authorized already) fails, and it changes neither the row nor the
\* order.
C22_AuthorizeOnlyAfterApproval ==
  /\ \A r \in DOMAIN payments :
       (payments[r].payment_method = "paypal" /\ payments[r].status = "requires_capture")
         => orders[payments[r].transaction_id].state \notin {"CREATED", "APPROVED"}
  /\ (procs[1].op = "processAuthorization" /\ procs[1].pre # "APPROVED")
       => procs[1].result = "error" /\ ~procs[1].changed
  /\ (procs[1].op = "processAuthorization" /\ procs[1].result = "authorized")
       => procs[1].pre = "APPROVED"

\* processAuthorization was called a second time on an order already
\* authorized, whose row is 'requires_capture', and failed.
C22_SecondAuthorizeSeen ==
  /\ procs[1].op = "processAuthorization" /\ procs[1].pre = "AUTHORIZED"
  /\ procs[1].result = "error"
  /\ orders[procs[1].id].state = "AUTHORIZED"
  /\ \E r \in DOMAIN payments :
       /\ payments[r].transaction_id = procs[1].id
       /\ payments[r].booking_id = procs[1].bk
       /\ payments[r].status = "requires_capture"

\* The hold of row r is declined before its approval was confirmed: the
\* row is still 'requires_action' and PayPal has not authorized its order.
DeclineBeforeApproval(r) ==
  /\ payments[r].status = "requires_action"
  /\ orders[payments[r].transaction_id].state \in {"CREATED", "APPROVED"}
  /\ \E o \in {"voided", "rejected", "network", "update_failed"} :
       PayPalService_cancelPaymentHold(r, o)

\* C23: opening a hold and declining it before the payer's approval is
\* confirmed leaves the booking's payment_status as it was before the hold
\* was opened, and nothing is held at the provider.
C23_DeclinedHoldLeavesBooking ==
  [][ /\ (\E o \in {"ok", "order_failed", "insert_failed"} : PayPalButton_createOrder(o))
         => ride_bookings' = ride_bookings
      /\ \A r \in DOMAIN payments :
           DeclineBeforeApproval(r)
             => /\ ride_bookings' = ride_bookings
                /\ orders'[payments[r].transaction_id].state \in {"CREATED", "APPROVED"}
    ]_vars

\* A hold was opened and declined before the payer approved: the void
\* failed, the booking is still 'pending' and its order not authorized.
C23_DeclinedBeforeApprovalSeen ==
  /\ procs[1].op = "cancelPaymentHold" /\ procs[1].pre = "requires_action"
  /\ procs[1].result = "error"
  /\ ride_bookings[procs[1].bk].payment_status = "pending"
  /\ \A r \in DOMAIN payments :
       payments[r].booking_id = procs[1].bk
         => /\ payments[r].status = "requires_action"
            /\ orders[payments[r].transaction_id].state = "CREATED"

\* ========================================================= earning status
\* EarningsService.updateEarningStatus(earningId, status, payoutId?): the
\* row's status is set to the status given, and its payout_id when one is
\* given; false on a database error.
updateEarningStatus(earningId, status, payoutId, outcome) ==
  LET row == earnings[earningId]
      updateData ==
        [f \in DOMAIN row \cup (IF payoutId # NoId THEN {"payout_id"} ELSE {}) |->
           IF f = "status" THEN status
           ELSE IF f = "payout_id" /\ payoutId # NoId THEN payoutId
           ELSE row[f]]
  IN /\ calls < MaxCalls
     /\ earningId \in DOMAIN earnings
     /\ outcome \in {"ok"} \cup (IF CanFault THEN {"update_failed"} ELSE {})
     /\ earnings' = IF outcome = "ok"
                    THEN [earnings EXCEPT ![earningId] = updateData]
                    ELSE earnings
     /\ lastOutcome' = IF outcome = "ok" THEN "status_updated" ELSE outcome
     /\ calls' = calls + 1
     /\ faults' = IF outcome = "ok" THEN faults ELSE faults + 1
     /\ UNCHANGED <<rides, rideAutomationService, payout_requests, now, ride_bookings, payments, orders,
                    intents, currentBookingId, popupOrder, procs>>

EarningStatusNext ==
  \/ \E g \in {1000, 3275}, o \in {"ok", "insert_failed"} :
       createEarning_call(1, g, 15, o)
  \/ \E e \in DOMAIN earnings,
        status \in {"pending", "available", "requested", "processing", "paid"},
        payoutId \in {NoId, 1}, o \in {"ok", "update_failed"} :
       updateEarningStatus(e, status, payoutId, o)

EarningStatusSpec == Init /\ [][EarningStatusNext]_vars

\* The place of a status on the way pending -> available -> requested ->
\* processing -> paid.
StatusRank(status) ==
  CASE status = "pending" -> 0
    [] status = "available" -> 1
    [] status = "requested" -> 2
    [] status = "processing" -> 3
    [] status = "paid" -> 4

\* C21: an earning is created 'pending', and its status only moves forward
\* along pending -> available -> requested -> processing -> paid: never to
\* an earlier status, and never from pending straight to paid.
C21_StatusOnlyAdvances ==
  [][\A e \in DOMAIN earnings' :
       IF e \in DOMAIN earnings
       THEN /\ StatusRank(earnings'[e].status) >= StatusRank(earnings[e].status)
            /\ ~(earnings[e].status = "pending" /\ earnings'[e].status = "paid")
       ELSE earnings'[e].status = "pending"
    ]_vars

\* ========================================================= ride automation
\* The RideAutomationService singleton: its fields isRunning and intervalId,
\* with the intervals the event loop holds for it (timers), the runAutomation
\* calls in flight (runs: NoId for the immediate run, else the id of the
\* interval that started it) and the number of interval ids issued so far.
\* setInterval returns a fresh positive id.

\* if (this.isRunning) return;
AlreadyRunning_never(svc) == FALSE

AlreadyRunning(svc) == svc.isRunning

isAutomationRunning == rideAutomationService.isRunning

startAutomation ==
  LET svc == rideAutomationService
      id == svc.issued + 1
  IN /\ calls < MaxCalls
     /\ rideAutomationService' =
          IF AlreadyRunning(svc) THEN svc
          ELSE [svc EXCEPT !.isRunning = TRUE,
                           !.runs = Append(@, NoId),
                           !.timers = @ \cup {id},
                           !.issued = id,
                           !.intervalId = id]
     /\ lastOutcome' = IF AlreadyRunning(svc) THEN "already_running" ELSE "started"
     /\ calls' = calls + 1
     /\ UNCHANGED <<rides, payout_requests, now, ride_bookings, payments, earnings,
                    orders, intents, currentBookingId, popupOrder, procs, faults>>

stopAutomation ==
  LET svc == rideAutomationService
  IN /\ calls < MaxCalls
     /\ rideAutomationService' =
          [svc EXCEPT !.timers = IF svc.intervalId # NoId
                                 THEN @ \ {svc.intervalId} ELSE @,
                      !.intervalId = NoId,
                      !.isRunning = FALSE]
     /\ lastOutcome' = "stopped"
     /\ calls' = calls + 1
     /\ UNCHANGED <<rides, payout_requests, now, ride_bookings, payments, earnings,
                    orders, intents, currentBookingId, popupOrder, procs, faults>>

\* The event loop runs the callback of an interval it still holds:
\* () => { this.runAutomation(); }
IntervalFires(t) ==
  LET svc == rideAutomationService
  IN /\ t \in svc.timers
     /\ Len(svc.runs) < MaxProcs
     /\ rideAutomationService' = [svc EXCEPT !.runs = Append(@, t)]
     /\ UNCHANGED <<rides, payout_requests, now, ride_bookings, payments, earnings,
                    orders, intents, currentBookingId, popupOrder, lastOutcome,
                    procs, calls, faults>>

\* A runAutomation call in flight ends: the rpc's result, or null when the
\* rpc failed.  Nobody reads the value.
runAutomation_returns(i, outcome) ==
  LET svc == rideAutomationService
  IN /\ i \in 1..Len(svc.runs)
     /\ outcome \in {"ok"} \cup (IF CanFault THEN {"rpc_failed"} ELSE {})
     /\ rideAutomationService' =
          [svc EXCEPT !.runs = SubSeq(@, 1, i - 1) \o SubSeq(@, i + 1, Len(@))]
     /\ faults' = IF outcome = "ok" THEN faults ELSE faults + 1
     /\ UNCHANGED <<rides, payout_requests, now, ride_bookings, payments, earnings,
                    orders, intents, currentBookingId, popupOrder, lastOutcome,
                    procs, calls>>

AutomationNext ==
  \/ startAutomation
  \/ stopAutomation
  \/ \E t \in rideAutomationService.timers : IntervalFires(t)
  \/ \E i \in 1..Len(rideAutomationService.runs), o \in {"ok", "rpc_failed"} :
       runAutomation_returns(i, o)

AutomationSpec == Init /\ [][AutomationNext]_vars

\* A step in which an interval's callback starts a runAutomation call.
PeriodicRunStarted ==
  /\ Len(rideAutomationService'.runs) = Len(rideAutomationService.runs) + 1
  /\ rideAutomationService'.runs[Len(rideAutomationService'.runs)] # NoId

\* C25: whatever startAutomation and stopAutomation calls were made, at most
\* one interval is active, isAutomationRunning() is true exactly when one is,
\* and a periodic runAutomation call is started only by the interval of a
\* running service: none is started after stopAutomation.
C25_OneTimerWhileRunning ==
  /\ [](/\ Cardinality(rideAutomationService.timers) <= 1
        /\ isAutomationRunning <=> rideAutomationService.timers # {})
  /\ [][PeriodicRunStarted =>
          /\ isAutomationRunning
          /\ rideAutomationService'.runs[Len(rideAutomationService'.runs)]
               = rideAutomationService.intervalId]_vars

\* The service was started, an interval fired, and the service was stopped
\* while that periodic run was still in flight.
C25_StoppedWithRunInFlight ==
  /\ lastOutcome = "stopped"
  /\ ~isAutomationRunning
  /\ rideAutomationService.issued >= 1
  /\ \E i \in 1..Len(rideAutomationService.runs) :
       rideAutomationService.runs[i] # NoId

\* ============================================================ posting a ride
\* Times are minutes.  The driver is the signed-in user throughout, so rows
\* of table rides are that driver's; the route has been computed (routeInfo).

\* The last handleSubmit call: the times asked for, what checkRideConflicts
\* returned (<<>> for null) and whether the ride was inserted.
NoSubmit ==
  [op |-> "idle", departure_time |-> 0, arrival_time |-> 0,
   checked |-> FALSE, conflictResult |-> <<>>, inserted |-> FALSE]

PostRideInit ==
  /\ now = 0
  /\ ride_bookings = <<>>
  /\ payments = <<>>
  /\ earnings = <<>>
  /\ orders = <<>>
  /\ intents = <<>>
  /\ currentBookingId = NoId
  /\ popupOrder = NoId
  /\ lastOutcome = "none"
  /\ procs = [p \in ProcIds |-> NoSubmit]
  /\ calls = 0
  /\ faults = 0
  /\ payout_requests = <<>>
  /\ rideAutomationService = NewService
  /\ rides = <<>>

\* Database function check_ride_conflicts: does one of the driver's rides
\* overlap the time range asked for?
check_ride_conflicts(rows, departureTime, arrivalTime) ==
  \E r \in DOMAIN rows :
    /\ rows[r].departure_time < arrivalTime
    /\ departureTime < rows[r].arrival_time

\* rideConflictService.checkRideConflicts: the function's answer, or null
\* when the rpc returns an error or throws.
checkRideConflicts(rows, departureTime, arrivalTime, outcome) ==
  IF outcome \in {"rpc_error", "exception"}
  THEN <<>>
  ELSE <<[conflict_exists |-> check_ride_conflicts(rows, departureTime, arrivalTime)]>>

\* PostRidePage.handleSubmit.  outcome "refused" stands for the returns before
\* the conflict check (terms, eligibility, licence, price).
PostRidePage_handleSubmit(departureTime, totalDuration, outcome) ==
  LET arrivalTime == departureTime + totalDuration
      checked == outcome # "refused"
      conflictResult ==
        IF checked
        THEN checkRideConflicts(rides, departureTime, arrivalTime, outcome)
        ELSE <<>>
      conflict == conflictResult # <<>> /\ conflictResult[1].conflict_exists
      inserted == checked /\ ~conflict /\ outcome # "insert_failed"
  IN /\ calls < MaxCalls
     /\ outcome \in {"ok", "refused"}
          \cup (IF CanFault THEN {"rpc_error", "exception", "insert_failed"} ELSE {})
     /\ rides' = IF inserted
                 THEN Append(rides, [departure_time |-> departureTime,
                                     arrival_time |-> arrivalTime,
                                     status |-> "active"])
                 ELSE rides
     /\ procs' = [procs EXCEPT ![1] =
                    [op |-> "handleSubmit", departure_time |-> departureTime,
                     arrival_time |-> arrivalTime, checked |-> checked,
                     conflictResult |-> conflictResult, inserted |-> inserted]]
     /\ lastOutcome' = IF ~checked THEN "refused"
                       ELSE IF conflict THEN "schedule_conflict"
                       ELSE IF inserted THEN "ride_posted"
                       ELSE "post_failed"
     /\ calls' = calls + 1
     /\ faults' = IF outcome \in {"ok", "refused"} THEN faults ELSE faults + 1
     /\ UNCHANGED <<rideAutomationService, payout_requests, now, ride_bookings,
                    payments, earnings, orders, intents, currentBookingId,
                    popupOrder>>

PostRideNext ==
  \E departureTime \in {0, 60, 120}, totalDuration \in {60, 150},
     o \in {"ok", "refused", "rpc_error", "exception", "insert_failed"} :
    PostRidePage_handleSubmit(departureTime, totalDuration, o)

PostRideSpec == PostRideInit /\ [][PostRideNext]_vars

LastSubmit == procs[1]

\* C28: handleSubmit inserts a ride only if the conflict check completed and
\* reported no conflict; when checkRideConflicts could not complete, no ride
\* is created.
C28_RideOnlyAfterClearCheck ==
  LastSubmit.inserted =>
    /\ LastSubmit.conflictResult # <<>>
    /\ ~LastSubmit.conflictResult[1].conflict_exists

====
